---- MODULE Spec2Model ----
(***************************************************************************)
(* Enrollment & attempt consistency of the Zedny backend: the relational   *)
(* store (one record of tables), the request handlers of                   *)
(* app/api/v1/endpoints/{courses,quizzes,admin,ai}.py as actions, and the  *)
(* properties of spec.md section 8 checked against them.                   *)
(*                                                                         *)
(* A handler that awaits the database several times is split at its        *)
(* awaits (each request keeps its position in req[p].pc), so that          *)
(* concurrent requests interleave exactly where the event loop lets them.  *)
(* Every request has its own session; the store holds committed rows only  *)
(* (PostgreSQL READ COMMITTED: each statement reads the committed store).  *)
(***************************************************************************)
EXTENDS Integers, Sequences, FiniteSets, TLC

VARIABLES
    db,     \* the committed relational store: one field per table
    req,    \* req[p]: the request handler p is running and its position
    log,    \* responses of enroll_in_course so far, in completion order
    hist,   \* summary of the update_lesson_progress calls made so far
    last    \* what the latest deletion request saw and returned

vars == <<db, req, log, hist, last>>

----------------------------------------------------------------------------
(* Bounds of the model *)

MaxCalls == 3          \* enroll_in_course requests begun in one run
MaxUpdates == 3        \* update_lesson_progress requests begun in one run

LessonCounts == {1, 2} \* lessons of the course in the progress runs
Seconds == {-1, 1}     \* time_spent_seconds values sent (besides None)

Procs == {"p1", "p2"}  \* concurrent request handlers

----------------------------------------------------------------------------
(* Enumerations of app/models *)

UserIds == 1..4

UserRole(u) ==
    CASE u = 1 -> "SUPER_ADMIN"
      [] u = 2 -> "TEACHER"
      [] u = 3 -> "TEACHER"
      [] OTHER -> "STUDENT"

CourseStatus == {"PUBLISHED", "DRAFT", "PRIVATE"}
EnrollmentStatus == {"ACTIVE", "COMPLETED", "DROPPED"}
LessonStatus == {"NOT_STARTED", "IN_PROGRESS", "COMPLETED"}

NoId == 0              \* NULL in a nullable integer column
NoCode == "NULL"       \* NULL in a nullable string column

\* Optional[int] of a request body: None, or an integer
NoneTime == [none |-> TRUE, val |-> 0]
IntTime(v) == [none |-> FALSE, val |-> v]
\* Python truthiness of an Optional[int]
Truthy(t) == ~t.none /\ t.val # 0

\* progress_percent is a Float; the model keeps it as the exact fraction n/d
Zero == [n |-> 0, d |-> 1]
PctEq(a, b) == a.n * b.d = b.n * a.d
PctGe100(a) == a.n >= 100 * a.d

----------------------------------------------------------------------------
(* The store *)

EmptyDb ==
    [users |-> {}, quizzes |-> {}, questions |-> {}, choices |-> {},
     attempts |-> {}, participations |-> {}, courses |-> {}, lessons |-> {},
     enrollments |-> {}, lesson_progress |-> {}, messages |-> {},
     feedback |-> {}, chat_sessions |-> {},
     next |-> [quiz |-> 1, question |-> 1, choice |-> 1, attempt |-> 1,
               participation |-> 1, course |-> 1, lesson |-> 1,
               enrollment |-> 1, lesson_progress |-> 1, message |-> 1,
               feedback |-> 1, chat_session |-> 1]]

User(u) == [id |-> u, role |-> UserRole(u)]

Course(id, teacher, status, code) ==
    [id |-> id, teacher |-> teacher, status |-> status, access_code |-> code]

Lesson(id, course, quiz, code) ==
    [id |-> id, course |-> course, linked_quiz_id |-> quiz, quiz_code |-> code]

\* Enrollment row; status and progress_percent take the column defaults
Enrollment(id, u, c) ==
    [id |-> id, user |-> u, course |-> c, status |-> "ACTIVE", progress_percent |-> Zero]

Idle == [op |-> "idle", pc |-> "idle"]

InFlight == {p \in Procs : req[p].pc # "idle"}
Begun == Len(log) + Cardinality(InFlight)

\* the handler returns (or raises): the response is logged, the session closes
Respond(p, code, id) ==
    /\ log' = Append(log, [op |-> req[p].op, user |-> req[p].user, arg |-> req[p].arg,
                           code |-> code, id |-> id, begun |-> req[p].begun])
    /\ req' = [req EXCEPT ![p] = Idle]

----------------------------------------------------------------------------
(* enroll_in_course *)

CourseById(d, c) == {x \in d.courses : x.id = c}

\* A handler without the lookup would always go on to the INSERT.
ExistingEnrollmentSkipped(d, u, c) == {}

\* select(Enrollment).where(user_id == u, course_id == c)
ExistingEnrollment(d, u, c) == {e \in d.enrollments : e.user = u /\ e.course = c}

\* A store without the constraint accepts every INSERT.
uq_enrollment_user_course_Dropped(d, u, c) == FALSE

\* uq_enrollment_user_course: the INSERT conflicts with a committed row
uq_enrollment_user_course(d, u, c) == \E e \in d.enrollments : e.user = u /\ e.course = c

\* the foreign keys of enrollments: user_id -> users.id, course_id -> courses.id
EnrollmentFkError(d, u, c) ==
    \/ \A x \in d.users : x.id # u
    \/ CourseById(d, c) = {}

\* draft courses are for the owning teacher and the super-admin only
DraftForbidden(course, u) ==
    /\ course.status = "DRAFT"
    /\ course.teacher # u
    /\ UserRole(u) # "SUPER_ADMIN"

\* db.get(Course), the 404 and the draft check
EnrollBegin(p, u, c) ==
    /\ req[p].pc = "idle"
    /\ Begun < MaxCalls
    /\ \E x \in db.users : x.id = u
    /\ LET r == [op |-> "enroll", pc |-> "check_existing", user |-> u, arg |-> c,
                 begun |-> Len(log)]
           resp(code) == Append(log, [op |-> "enroll", user |-> u, arg |-> c,
                                      code |-> code, id |-> NoId, begun |-> Len(log)])
       IN IF CourseById(db, c) = {}
          THEN log' = resp(404) /\ req' = req
          ELSE IF \E x \in CourseById(db, c) : DraftForbidden(x, u)
          THEN log' = resp(403) /\ req' = req
          ELSE log' = log /\ req' = [req EXCEPT ![p] = r]
    /\ UNCHANGED <<db, hist, last>>

\* the lookup of the existing enrollment; .first() returns it when present
EnrollCheckExisting(p) ==
    /\ req[p].op = "enroll" /\ req[p].pc = "check_existing"
    /\ LET ex == ExistingEnrollment(db, req[p].user, req[p].arg)
       IN IF ex # {}
          THEN \E e \in ex : Respond(p, 200, e.id)
          ELSE log' = log /\ req' = [req EXCEPT ![p].pc = "insert"]
    /\ UNCHANGED <<db, hist, last>>

\* db.add(enrollment); await db.commit(); an IntegrityError is caught,
\* rolled back and returned as 500 (the sequence value stays consumed)
EnrollInsert(p) ==
    /\ req[p].op = "enroll" /\ req[p].pc = "insert"
    /\ LET u == req[p].user
           c == req[p].arg
           id == db.next.enrollment
           bumped == [db EXCEPT !.next.enrollment = id + 1]
       IN IF uq_enrollment_user_course(db, u, c) \/ EnrollmentFkError(db, u, c)
          THEN db' = bumped /\ Respond(p, 500, NoId)
          ELSE /\ db' = [bumped EXCEPT !.enrollments = @ \cup {Enrollment(id, u, c)}]
               /\ Respond(p, 200, id)
    /\ UNCHANGED <<hist, last>>

----------------------------------------------------------------------------
(* The enrollment runs: two courses of teacher 2 with any statuses, every  *)
(* user may enroll in either (or in a course that does not exist).         *)

NoLast == [op |-> "none"]
NoHist == [calls |-> 0, pure |-> TRUE, marked |-> {}, added |-> [l \in {} |-> 0]]

EnrollUsers == {1, 2, 4}      \* the super-admin, the owning teacher, a student
EnrollCourses == {1, 2, 3}    \* course 3 does not exist

InitEnroll ==
    /\ \E s1 \in CourseStatus, s2 \in CourseStatus :
          db = [EmptyDb EXCEPT !.users = {User(u) : u \in UserIds},
                               !.courses = {Course(1, 2, s1, "C1"), Course(2, 2, s2, "C2")},
                               !.next.course = 3]
    /\ req = [p \in Procs |-> Idle]
    /\ log = <<>>
    /\ hist = NoHist
    /\ last = NoLast

NextEnroll ==
    \/ \E p \in Procs, u \in EnrollUsers, c \in EnrollCourses : EnrollBegin(p, u, c)
    \/ \E p \in Procs : EnrollCheckExisting(p)
    \/ \E p \in Procs : EnrollInsert(p)

SpecEnroll == InitEnroll /\ [][NextEnroll]_vars

----------------------------------------------------------------------------
(* update_lesson_progress *)

LessonById(d, l) == {x \in d.lessons : x.id = l}

LessonProgress(id, e, l, st, t) ==
    [id |-> id, enrollment |-> e, lesson |-> l, status |-> st, time_spent_seconds |-> t]

\* select(LessonProgress).where(enrollment_id == e, lesson_id == l)
ProgressRows(d, e, l) == {r \in d.lesson_progress : r.enrollment = e /\ r.lesson = l}

\* The table without its unique constraint.
NoUniqueProgress(d, e, l) == FALSE

\* uq_lesson_progress_enrollment_lesson
uq_lesson_progress_enrollment_lesson(d, e, l) == ProgressRows(d, e, l) # {}

\* the foreign keys of lesson_progress
LessonProgressFkError(d, e, l) ==
    \/ \A x \in d.enrollments : x.id # e
    \/ LessonById(d, l) = {}

\* ck_lesson_progress_time_positive
ck_lesson_progress_time_positive(t) == t >= 0

\* ck_enrollment_progress_range
ck_enrollment_progress_range(pct) == pct.n >= 0 /\ pct.n <= 100 * pct.d

\* select(func.count(Lesson.id)).where(course_id == c)
CountLessons(d, c) == Cardinality({x \in d.lessons : x.course = c})

\* select(func.count(LessonProgress.id)).where(enrollment_id == e, status == COMPLETED)
CountCompleted(d, e) ==
    Cardinality({r \in d.lesson_progress : r.enrollment = e /\ r.status = "COMPLETED"})

\* The ratio without the factor 100.
PercentNoScale(completed, total) ==
    IF total > 0 THEN [n |-> completed, d |-> total] ELSE Zero

\* (completed / total * 100) if total > 0 else 0
Percent(completed, total) ==
    IF total > 0 THEN [n |-> completed * 100, d |-> total] ELSE Zero

\* A recomputation that also sets ACTIVE below 100.
CompletionStatusReverting(old, pct) ==
    IF PctGe100(pct) THEN "COMPLETED" ELSE "ACTIVE"

\* if enrollment.progress_percent >= 100: enrollment.status = COMPLETED
CompletionStatus(old, pct) ==
    IF PctGe100(pct) THEN "COMPLETED" ELSE old

\* What the summary keeps of a call that has returned: whether every call
\* so far ran alone, set COMPLETED and succeeded; the lessons so marked; and
\* the seconds the successful calls added, per lesson.
Returned(h, l, st, t, code) ==
    [h EXCEPT !.pure = @ /\ code = 200 /\ st = "COMPLETED",
              !.marked = IF code = 200 /\ st = "COMPLETED" THEN @ \cup {l} ELSE @,
              !.added = IF code = 200 /\ Truthy(t) /\ l \in DOMAIN @
                        THEN [@ EXCEPT ![l] = @ + t.val] ELSE @]

\* the handler returns (or raises) and its session closes
ProgRespond(p, code, id) ==
    /\ hist' = Returned(hist, req[p].arg, req[p].status, req[p].time, code)
    /\ req' = [req EXCEPT ![p] = Idle]

\* db.get(Lesson) and the 404
ProgBegin(p, u, l, st, t) ==
    /\ req[p].pc = "idle"
    /\ hist.calls < MaxUpdates
    /\ \E x \in db.users : x.id = u
    /\ LET h == [hist EXCEPT !.calls = @ + 1, !.pure = @ /\ InFlight = {}]
       IN IF LessonById(db, l) = {}
          THEN /\ hist' = Returned(h, l, st, t, 404)
               /\ req' = req
          ELSE /\ hist' = h
               /\ \E x \in LessonById(db, l) :
                     req' = [req EXCEPT ![p] =
                               [op |-> "progress", pc |-> "get_enrollment", user |-> u,
                                arg |-> l, status |-> st, time |-> t, course |-> x.course]]
    /\ UNCHANGED <<db, log, last>>

\* the user's enrollment in the lesson's course, or 400
ProgGetEnrollment(p) ==
    /\ req[p].op = "progress" /\ req[p].pc = "get_enrollment"
    /\ LET rows == ExistingEnrollment(db, req[p].user, req[p].course)
       IN IF rows = {}
          THEN ProgRespond(p, 400, NoId)
          ELSE /\ hist' = hist
               /\ \E e \in rows :
                     req' = [req EXCEPT ![p] =
                               [op |-> "progress", pc |-> "get_progress", user |-> req[p].user,
                                arg |-> req[p].arg, status |-> req[p].status,
                                time |-> req[p].time,
                                course |-> req[p].course, enr |-> e]]
    /\ UNCHANGED <<db, log, last>>

\* get-or-create of the LessonProgress object and the changes made to it in
\* the session. A new object has time_spent_seconds None until it is
\* flushed (the column default is applied by the INSERT), so += raises
\* TypeError on it.
ProgGetProgress(p) ==
    /\ req[p].op = "progress" /\ req[p].pc = "get_progress"
    /\ LET r == req[p]
           rows == ProgressRows(db, r.enr.id, r.arg)
           next(loaded, isNew, t) ==
               [op |-> "progress", pc |-> "commit1", user |-> r.user, arg |-> r.arg,
                status |-> r.status, time |-> r.time,
                course |-> r.course, enr |-> r.enr,
                isNew |-> isNew, loaded |-> loaded, newTime |-> t]
       IN IF Cardinality(rows) > 1
          THEN ProgRespond(p, 500, NoId)                       \* MultipleResultsFound
          ELSE IF rows = {}
          THEN IF Truthy(r.time)
               THEN ProgRespond(p, 500, NoId)                  \* TypeError: None += int
               ELSE /\ hist' = hist
                    /\ req' = [req EXCEPT ![p] =
                                 next(LessonProgress(NoId, r.enr.id, r.arg, r.status, 0),
                                      TRUE, 0)]
          ELSE /\ hist' = hist
               /\ \E row \in rows :
                     req' = [req EXCEPT ![p] =
                               next(row, FALSE,
                                    IF Truthy(r.time)
                                    THEN row.time_spent_seconds + r.time.val
                                    ELSE row.time_spent_seconds)]
    /\ UNCHANGED <<db, log, last>>

\* the row as the UPDATE of the first commit leaves it: only the columns
\* the session changed are written, with the values the session computed
UpdatedProgress(row, r) ==
    [row EXCEPT !.status = IF r.status # r.loaded.status THEN r.status ELSE @,
                !.time_spent_seconds =
                    IF r.newTime # r.loaded.time_spent_seconds THEN r.newTime ELSE @]

\* the first await db.commit(): INSERT of the new row or UPDATE of the loaded one
ProgCommit1(p) ==
    /\ req[p].op = "progress" /\ req[p].pc = "commit1"
    /\ LET r == req[p]
           id == db.next.lesson_progress
           bumped == [db EXCEPT !.next.lesson_progress = id + 1]
           go(rowId) == [req EXCEPT ![p] =
               [op |-> "progress", pc |-> "count_total", user |-> r.user, arg |-> r.arg,
                status |-> r.status, time |-> r.time,
                course |-> r.course, enr |-> r.enr, row |-> rowId]]
       IN IF r.isNew
          THEN IF \/ uq_lesson_progress_enrollment_lesson(db, r.enr.id, r.arg)
                  \/ LessonProgressFkError(db, r.enr.id, r.arg)
               THEN db' = bumped /\ ProgRespond(p, 500, NoId)  \* IntegrityError
               ELSE /\ db' = [bumped EXCEPT !.lesson_progress =
                                 @ \cup {LessonProgress(id, r.enr.id, r.arg, r.status, 0)}]
                    /\ hist' = hist
                    /\ req' = go(id)
          ELSE IF \A x \in db.lesson_progress : x.id # r.loaded.id
               THEN db' = db /\ ProgRespond(p, 500, NoId)      \* StaleDataError
               ELSE IF ~ck_lesson_progress_time_positive(r.newTime)
               THEN db' = db /\ ProgRespond(p, 500, NoId)      \* IntegrityError
               ELSE /\ db' = [db EXCEPT !.lesson_progress =
                                 {IF x.id = r.loaded.id THEN UpdatedProgress(x, r) ELSE x
                                    : x \in @}]
                    /\ hist' = hist
                    /\ req' = go(r.loaded.id)
    /\ UNCHANGED <<log, last>>

\* the count of the course's lessons
ProgCountTotal(p) ==
    /\ req[p].op = "progress" /\ req[p].pc = "count_total"
    /\ LET r == req[p]
       IN req' = [req EXCEPT ![p] =
               [op |-> "progress", pc |-> "count_completed", user |-> r.user, arg |-> r.arg,
                status |-> r.status, time |-> r.time,
                course |-> r.course, enr |-> r.enr, row |-> r.row,
                total |-> CountLessons(db, r.course)]]
    /\ UNCHANGED <<db, log, hist, last>>

\* the count of the enrollment's completed lessons, and the new
\* progress_percent / status set on the session's Enrollment object
ProgCountCompleted(p) ==
    /\ req[p].op = "progress" /\ req[p].pc = "count_completed"
    /\ LET r == req[p]
           pct == Percent(CountCompleted(db, r.enr.id), r.total)
       IN req' = [req EXCEPT ![p] =
               [op |-> "progress", pc |-> "commit2", user |-> r.user, arg |-> r.arg,
                status |-> r.status, time |-> r.time,
                course |-> r.course, enr |-> r.enr, row |-> r.row,
                pct |-> pct, enrStatus |-> CompletionStatus(r.enr.status, pct)]]
    /\ UNCHANGED <<db, log, hist, last>>

\* the enrollment row as the UPDATE of the second commit leaves it
UpdatedEnrollment(e, r) ==
    [e EXCEPT !.progress_percent = IF ~PctEq(r.pct, r.enr.progress_percent) THEN r.pct ELSE @,
              !.status = IF r.enrStatus # r.enr.status THEN r.enrStatus ELSE @]

\* the second await db.commit() and db.refresh(progress)
ProgCommit2(p) ==
    /\ req[p].op = "progress" /\ req[p].pc = "commit2"
    /\ LET r == req[p]
           changed == ~PctEq(r.pct, r.enr.progress_percent) \/ r.enrStatus # r.enr.status
       IN IF changed /\ \A e \in db.enrollments : e.id # r.enr.id
          THEN db' = db /\ ProgRespond(p, 500, NoId)           \* StaleDataError
          ELSE IF changed /\ ~ck_enrollment_progress_range(r.pct)
          THEN db' = db /\ ProgRespond(p, 500, NoId)           \* IntegrityError
          ELSE /\ db' = [db EXCEPT !.enrollments =
                            {IF e.id = r.enr.id /\ changed THEN UpdatedEnrollment(e, r) ELSE e
                               : e \in @}]
               /\ IF \E x \in db.lesson_progress : x.id = r.row
                  THEN ProgRespond(p, 200, r.row)
                  ELSE ProgRespond(p, 500, NoId)               \* refresh of a deleted row
    /\ UNCHANGED <<log, last>>

----------------------------------------------------------------------------
(* The progress runs: course 1 of teacher 2 with one or two lessons,       *)
(* user 4 freshly enrolled in it, user 1 not enrolled.                     *)

TimeInputs == {NoneTime} \cup {IntTime(v) : v \in Seconds}

ProgressInputs(n) ==
    {[user |-> 4, lesson |-> l, status |-> st, time |-> t] :
        l \in 1..n, st \in LessonStatus, t \in TimeInputs}
    \cup {[user |-> 1, lesson |-> 1, status |-> "IN_PROGRESS", time |-> NoneTime],
          [user |-> 4, lesson |-> n + 1, status |-> "COMPLETED", time |-> NoneTime]}

InitProgress ==
    /\ \E n \in LessonCounts :
          db = [EmptyDb EXCEPT !.users = {User(u) : u \in UserIds},
                               !.courses = {Course(1, 2, "PUBLISHED", "C1")},
                               !.lessons = {Lesson(l, 1, NoId, NoCode) : l \in 1..n},
                               !.enrollments = {Enrollment(1, 4, 1)},
                               !.next.course = 2,
                               !.next.lesson = n + 1,
                               !.next.enrollment = 2]
    /\ req = [p \in Procs |-> Idle]
    /\ log = <<>>
    /\ hist = [NoHist EXCEPT !.added = [l \in {x.id : x \in db.lessons} |-> 0]]
    /\ last = NoLast

NextProgress ==
    \/ \E p \in Procs, i \in ProgressInputs(Cardinality(db.lessons)) :
          ProgBegin(p, i.user, i.lesson, i.status, i.time)
    \/ \E p \in Procs : ProgGetEnrollment(p)
    \/ \E p \in Procs : ProgGetProgress(p)
    \/ \E p \in Procs : ProgCommit1(p)
    \/ \E p \in Procs : ProgCountTotal(p)
    \/ \E p \in Procs : ProgCountCompleted(p)
    \/ \E p \in Procs : ProgCommit2(p)

SpecProgress == InitProgress /\ [][NextProgress]_vars

----------------------------------------------------------------------------
(* Reading the response log *)

LogIdx == 1..Len(log)

\* call i had returned before call j began
Before(i, j) == log[j].begun >= i

Overlap(i, j) == i # j /\ ~Before(i, j) /\ ~Before(j, i)

SameCall(i, j) ==
    /\ log[i].op = log[j].op
    /\ log[i].user = log[j].user
    /\ log[i].arg = log[j].arg

\* no other request for the same (user, target) ran while call i did
Solo(i) ==
    /\ \A j \in LogIdx : SameCall(i, j) => ~Overlap(i, j)
    /\ \A p \in InFlight :
          (req[p].op = log[i].op /\ req[p].user = log[i].user /\ req[p].arg = log[i].arg)
              => req[p].begun >= i

EnrollmentRows(u, c) == {e \in db.enrollments : e.user = u /\ e.course = c}

OpenCourse(c) == \E x \in db.courses : x.id = c /\ x.status # "DRAFT"

\* two enroll calls of one user on one non-draft course, one after the other
EnrolledTwice(i, j) ==
    /\ i < j
    /\ log[i].op = "enroll"
    /\ SameCall(i, j)
    /\ OpenCourse(log[i].arg)
    /\ Before(i, j)
    /\ Solo(i) /\ Solo(j)

\* C1: enroll_in_course(u, c) called twice in sequence on an existing
\* non-draft course returns the same Enrollment id both times, and the store
\* then holds exactly one Enrollment row for (u, c).
C1_EnrollTwiceSameId ==
    \A i \in LogIdx, j \in LogIdx :
        EnrolledTwice(i, j) =>
            /\ log[i].code = 200 /\ log[j].code = 200
            /\ log[i].id = log[j].id
            /\ Cardinality(EnrollmentRows(log[i].user, log[i].arg)) = 1

\* the first call created the row, the second call returned
C1_Witness ==
    \E i \in LogIdx, j \in LogIdx :
        /\ EnrolledTwice(i, j)
        /\ \A k \in LogIdx : SameCall(i, k) => k >= i
        /\ log[j].code = 200

\* two enroll calls for one (user, course) that ran concurrently, both past
\* the access checks
EnrolledConcurrently(i, j) ==
    /\ log[i].op = "enroll"
    /\ SameCall(i, j)
    /\ Overlap(i, j)
    /\ log[i].code \in {200, 500} /\ log[j].code \in {200, 500}

\* C2: whatever the interleaving of concurrent enroll_in_course calls for one
\* (user, course), the committed store never holds two Enrollment rows for
\* the pair, and holds exactly one once two concurrent calls have returned.
C2_OneRowPerPair ==
    /\ \A u \in UserIds, c \in EnrollCourses : Cardinality(EnrollmentRows(u, c)) <= 1
    /\ \A i \in LogIdx, j \in LogIdx :
          EnrolledConcurrently(i, j) =>
              Cardinality(EnrollmentRows(log[i].user, log[i].arg)) = 1

\* both concurrent calls found no row and went on to insert
C2_Witness ==
    \E i \in LogIdx, j \in LogIdx :
        /\ EnrolledConcurrently(i, j)
        /\ log[i].code = 500 \/ log[j].code = 500

\* C3: enroll_in_course never returns an error because the Enrollment already
\* exists: every call on an existing course the caller may access returns
\* the one Enrollment row, also when it lost the race to insert it.
C3_NeverConflictError ==
    \A i \in LogIdx :
        (log[i].op = "enroll" /\ log[i].code \notin {403, 404}) =>
            /\ log[i].code = 200
            /\ \E e \in EnrollmentRows(log[i].user, log[i].arg) : e.id = log[i].id

----------------------------------------------------------------------------
(* Progress aggregation *)

AllReturned == InFlight = {}

LessonsOf(c) == {x \in db.lessons : x.course = c}

CompletedRows(e) ==
    {r \in db.lesson_progress : r.enrollment = e.id /\ r.status = "COMPLETED"}

\* pct = k / n * 100, or 0 when n = 0
IsShare(pct, k, n) ==
    IF n = 0 THEN pct.n = 0 ELSE pct.n * n = 100 * k * pct.d

\* C4: after update_lesson_progress has marked k distinct lessons COMPLETED
\* for an enrollment of a course with N lessons, one call after the other
\* and nothing else, progress_percent is k/N*100 (0 when N = 0) and the
\* status is COMPLETED exactly when that value is at least 100.
C4_ProgressIsShare ==
    (AllReturned /\ hist.pure) =>
        \A e \in db.enrollments :
            LET k == Cardinality(hist.marked)
                n == Cardinality(LessonsOf(e.course))
            IN /\ IsShare(e.progress_percent, k, n)
               /\ e.status = "COMPLETED" <=> (n > 0 /\ k >= n)

\* one of two lessons marked, then both
C4_Witness ==
    /\ AllReturned /\ hist.pure
    /\ hist.calls = 3
    /\ Cardinality(hist.marked) = 2
    /\ \E e \in db.enrollments : e.status = "COMPLETED"

\* C5: the LessonProgress row and the recomputed progress_percent are written
\* as one unit: no committed state has a LessonProgress change that the
\* enrollment's progress_percent does not reflect.
C5_ProgressInSync ==
    \A e \in db.enrollments :
        IsShare(e.progress_percent, Cardinality(CompletedRows(e)),
                Cardinality(LessonsOf(e.course)))

\* C6: once an Enrollment is COMPLETED, no update_lesson_progress call sets
\* it back to ACTIVE, whatever lesson status it sends.
C6_CompletedIsFinal ==
    [][\A e \in db.enrollments : \A f \in db'.enrollments :
          (e.id = f.id /\ e.status = "COMPLETED") => f.status = "COMPLETED"]_vars

\* a completed lesson was set back, the percentage dropped, the status stayed
C6_Witness ==
    \E e \in db.enrollments :
        /\ e.status = "COMPLETED"
        /\ ~PctGe100(e.progress_percent)
        /\ CompletedRows(e) = {}

\* C7: concurrent update_lesson_progress calls on one LessonProgress row lose
\* no increment: once all calls have returned, time_spent_seconds is the sum
\* of the seconds the successful calls added.
C7_NoLostIncrement ==
    AllReturned =>
        \A r \in db.lesson_progress : r.time_spent_seconds = hist.added[r.lesson]

\* C8: time_spent_seconds of a LessonProgress row never decreases from one
\* committed state to the next.
C8_TimeNeverDecreases ==
    [][\A r \in db.lesson_progress : \A q \in db'.lesson_progress :
          r.id = q.id => q.time_spent_seconds >= r.time_spent_seconds]_vars

----------------------------------------------------------------------------
(* Deletion of quizzes and users: delete_quiz (quizzes.py),                 *)
(* admin_delete_quiz and admin_delete_user (admin.py).  Requests run one at *)
(* a time in these runs and a handler commits once, so each handler is one  *)
(* step from committed store to committed store.                            *)

MaxOps == 2            \* requests that add rows in one deletion run

\* Rows of app/models/quiz.py
Quiz(id, teacher, code) == [id |-> id, teacher |-> teacher, access_code |-> code]
Question(id, quiz) == [id |-> id, quiz |-> quiz]
Choice(id, question) == [id |-> id, question |-> question]

\* QuizAttempt and QuizParticipation: a quiz and a user reference each, both
\* not null and enforced by the store (spec.md sections 3 and 6).
\* The body of POST /{quiz_id}/attempts and the row built from it.
QuizAttemptCreate(score, total_questions, correct_answers, rank) ==
    [score |-> score, total_questions |-> total_questions,
     correct_answers |-> correct_answers, rank |-> rank]

QuizAttempt(id, quiz, user, attempt_in) ==
    [id |-> id, quiz |-> quiz, user |-> user, score |-> attempt_in.score,
     total_questions |-> attempt_in.total_questions,
     correct_answers |-> attempt_in.correct_answers, rank |-> attempt_in.rank]

\* One finished quiz with every answer right.
FullMarks == QuizAttemptCreate(1, 1, 1, NoCode)

\* A store without the check constraints on quiz_attempts.
UncheckedAttempt(a) == TRUE

\* CHECK constraints of quiz_attempts
ck_quiz_attempt_score_positive(a) == a.score >= 0
ck_quiz_attempt_correct_answers_valid(a) ==
    a.correct_answers >= 0 /\ a.correct_answers <= a.total_questions

QuizAttemptChecks(a) ==
    ck_quiz_attempt_score_positive(a) /\ ck_quiz_attempt_correct_answers_valid(a)
QuizParticipation(id, quiz, user) == [id |-> id, quiz |-> quiz, user |-> user]

\* Rows of app/models/course.py
CommunityMessage(id, user, course) == [id |-> id, user |-> user, course |-> course]
CourseFeedback(id, user, course) == [id |-> id, user |-> user, course |-> course]

\* ChatSession(user_id=current_user.id, ...) of chat_with_ai
ChatSession(id, user) == [id |-> id, user |-> user]

UserRows(d, u) == {x \in d.users : x.id = u}
QuizById(d, q) == {x \in d.quizzes : x.id = q}
Ids(rows) == {x.id : x \in rows}

\* is_super_admin(user)
is_super_admin(u) == UserRole(u) = "SUPER_ADMIN"

(* What the session's flush does for db.delete(obj), from the relationships *)
(* the models declare.                                                      *)

\* Quiz.questions and Question.choices: cascade="all, delete-orphan"
QuestionsOf(d, quiz_ids) == {x \in d.questions : x.quiz \in quiz_ids}
ChoicesOf(d, questions) == {x \in d.choices : x.question \in Ids(questions)}

\* A flush that leaves the lessons of a deleted quiz as they are.
LinkedLessonsKept(d, quiz_ids) == d.lessons

\* Lesson.linked_quiz = relationship("Quiz", backref="linked_lessons"): no
\* delete cascade, so the flush sets the foreign key column of the lessons in
\* the collection to NULL and leaves their other columns alone.
NullifyLinkedLessons(d, quiz_ids) ==
    {IF l.linked_quiz_id \in quiz_ids THEN [l EXCEPT !.linked_quiz_id = NoId] ELSE l :
        l \in d.lessons}

\* Attempts and participations still naming a deleted quiz: the flush cannot
\* null their quiz_id ("null value in column quiz_id", admin.py) and the
\* store rejects the dangling reference.
QuizReferenceError(d, quiz_ids) ==
    \/ \E r \in d.attempts : r.quiz \in quiz_ids
    \/ \E r \in d.participations : r.quiz \in quiz_ids

FlushDeleteQuizzes(d, quiz_ids) ==
    [d EXCEPT !.quizzes = {q \in @ : q.id \notin quiz_ids},
              !.questions = @ \ QuestionsOf(d, quiz_ids),
              !.choices = @ \ ChoicesOf(d, QuestionsOf(d, quiz_ids)),
              !.lessons = NullifyLinkedLessons(d, quiz_ids)]

\* Enrollment.lesson_progress: cascade="all, delete-orphan"
FlushDeleteEnrollments(d, enrollment_ids) ==
    [d EXCEPT !.enrollments = {e \in @ : e.id \notin enrollment_ids},
              !.lesson_progress = {r \in @ : r.enrollment \notin enrollment_ids}]

\* A Course without the cascades: only its own row goes.
CourseRowOnly(d, course_ids) ==
    [d EXCEPT !.courses = {c \in @ : c.id \notin course_ids}]

\* Course.lessons, enrollments, community_messages, feedback and
\* Lesson.progress_records: cascade="all, delete-orphan"
FlushDeleteCourses(d, course_ids) ==
    LET lesson_ids == Ids({l \in d.lessons : l.course \in course_ids})
        enrollment_ids == Ids({e \in d.enrollments : e.course \in course_ids})
    IN  [d EXCEPT !.courses = {c \in @ : c.id \notin course_ids},
                  !.lessons = {l \in @ : l.course \notin course_ids},
                  !.enrollments = {e \in @ : e.course \notin course_ids},
                  !.lesson_progress = {r \in @ : r.lesson \notin lesson_ids
                                                 /\ r.enrollment \notin enrollment_ids},
                  !.messages = {m \in @ : m.course \notin course_ids},
                  !.feedback = {f \in @ : f.course \notin course_ids}]

\* backref="quizzes", "courses", "community_messages", "enrollments",
\* "course_feedback" on User: no delete cascade and the columns are not
\* nullable, so a row of these still naming the deleted user fails the flush.
UserBackrefError(d, u) ==
    \/ \E x \in d.quizzes : x.teacher = u
    \/ \E x \in d.courses : x.teacher = u
    \/ \E x \in d.messages : x.user = u
    \/ \E x \in d.enrollments : x.user = u
    \/ \E x \in d.feedback : x.user = u

\* Attempts, participations and chat sessions reference the user too; the
\* store enforces the references (spec.md section 6).
UserReferenceError(d, u) ==
    \/ \E x \in d.attempts : x.user = u
    \/ \E x \in d.participations : x.user = u
    \/ \E x \in d.chat_sessions : x.user = u

(* The handlers.  last records the request and the store it started from. *)

Reply(op, actor, target, code, d) ==
    /\ db' = d
    /\ last' = [op |-> op, actor |-> actor, target |-> target, code |-> code, pre |-> db]

\* delete_quiz: the owner, or a caller whose role is ADMIN
delete_quiz(actor, quiz_id) ==
    /\ UserRows(db, actor) # {}
    /\ LET found == QuizById(db, quiz_id) IN
       IF found = {} THEN Reply("delete_quiz", actor, quiz_id, 404, db)
       ELSE \E quiz \in found :
            IF quiz.teacher # actor /\ UserRole(actor) # "ADMIN"
            THEN Reply("delete_quiz", actor, quiz_id, 403, db)
            ELSE IF QuizReferenceError(db, {quiz_id})
            THEN Reply("delete_quiz", actor, quiz_id, 500, db)
            ELSE Reply("delete_quiz", actor, quiz_id, 204, FlushDeleteQuizzes(db, {quiz_id}))
    /\ UNCHANGED <<req, log, hist>>

\* admin_delete_quiz: get_current_active_superuser, then the same delete
admin_delete_quiz(actor, quiz_id) ==
    /\ UserRows(db, actor) # {}
    /\ IF ~is_super_admin(actor) THEN Reply("admin_delete_quiz", actor, quiz_id, 403, db)
       ELSE IF QuizById(db, quiz_id) = {} THEN Reply("admin_delete_quiz", actor, quiz_id, 404, db)
       ELSE IF QuizReferenceError(db, {quiz_id})
       THEN Reply("admin_delete_quiz", actor, quiz_id, 500, db)
       ELSE Reply("admin_delete_quiz", actor, quiz_id, 204, FlushDeleteQuizzes(db, {quiz_id}))
    /\ UNCHANGED <<req, log, hist>>

\* The UPDATE without its WHERE clause.
UnlinkEveryLesson(d, quiz_ids) ==
    {[l EXCEPT !.linked_quiz_id = NoId, !.quiz_code = NoCode] : l \in d.lessons}

\* update(Lesson).where(Lesson.linked_quiz_id.in_(quiz_ids))
\*               .values(linked_quiz_id=None, quiz_code=None)
UnlinkLessons(d, quiz_ids) ==
    {IF l.linked_quiz_id \in quiz_ids
        THEN [l EXCEPT !.linked_quiz_id = NoId, !.quiz_code = NoCode] ELSE l :
        l \in d.lessons}

\* The transaction of admin_delete_user on a found target other than the
\* caller: the bulk statements in order, then the flush of the commit.
AdminDeleteUserTxn(d, user_id) ==
    LET t1 == [d EXCEPT !.participations = {r \in @ : r.user # user_id}]
        t2 == [t1 EXCEPT !.attempts = {r \in @ : r.user # user_id}]
        user_enrollments == Ids({e \in t2.enrollments : e.user = user_id})
        t3 == [t2 EXCEPT !.messages = {m \in @ : m.user # user_id}]
        t4 == [t3 EXCEPT !.feedback = {f \in @ : f.user # user_id}]
        quiz_ids == Ids({q \in t4.quizzes : q.teacher = user_id})
        t5 == IF quiz_ids = {} THEN t4
              ELSE [t4 EXCEPT !.lessons = UnlinkLessons(t4, quiz_ids),
                              !.participations = {r \in @ : r.quiz \notin quiz_ids},
                              !.attempts = {r \in @ : r.quiz \notin quiz_ids}]
        course_ids == Ids({c \in t5.courses : c.teacher = user_id})
        f1 == FlushDeleteEnrollments(t5, user_enrollments)
        f2 == FlushDeleteQuizzes(f1, quiz_ids)
        f3 == FlushDeleteCourses(f2, course_ids)
        f4 == [f3 EXCEPT !.users = {u \in @ : u.id # user_id}]
        failed == \/ QuizReferenceError(f1, quiz_ids)
                  \/ UserBackrefError(f3, user_id)
                  \/ UserReferenceError(f3, user_id)
    IN  [code |-> IF failed THEN 500 ELSE 204, db |-> IF failed THEN d ELSE f4]

admin_delete_user(actor, user_id) ==
    /\ UserRows(db, actor) # {}
    /\ IF ~is_super_admin(actor) THEN Reply("admin_delete_user", actor, user_id, 403, db)
       ELSE IF UserRows(db, user_id) = {} THEN Reply("admin_delete_user", actor, user_id, 404, db)
       ELSE IF user_id = actor THEN Reply("admin_delete_user", actor, user_id, 400, db)
       ELSE LET txn == AdminDeleteUserTxn(db, user_id)
            IN  Reply("admin_delete_user", actor, user_id, txn.code, txn.db)
    /\ UNCHANGED <<req, log, hist>>

\* A handler that keeps one row per user and quiz and overwrites it.
UpsertQuizAttempt(actor, quiz_id, attempt_in) ==
    /\ hist.calls < MaxOps
    /\ UserRows(db, actor) # {}
    /\ hist' = [hist EXCEPT !.calls = @ + 1]
    /\ LET db_attempt == QuizAttempt(db.next.attempt, quiz_id, actor, attempt_in)
           rejected == QuizById(db, quiz_id) = {} \/ ~QuizAttemptChecks(db_attempt)
           earlier == {a \in db.attempts : a.user = actor /\ a.quiz = quiz_id}
       IN  /\ db' = [db EXCEPT !.attempts = IF rejected THEN @
                                            ELSE (@ \ earlier) \cup {db_attempt},
                               !.next.attempt = @ + 1]
           /\ last' = [op |-> "create_quiz_attempt", actor |-> actor, target |-> quiz_id,
                       code |-> IF rejected THEN 500 ELSE 200, pre |-> db,
                       body |-> attempt_in]
    /\ UNCHANGED <<req, log>>

\* create_quiz_attempt: no check in the handler; the store rejects at the
\* commit an attempt on a quiz that does not exist and one that breaks a
\* check constraint, and the handler lets the error through.
create_quiz_attempt(actor, quiz_id, attempt_in) ==
    /\ hist.calls < MaxOps
    /\ UserRows(db, actor) # {}
    /\ hist' = [hist EXCEPT !.calls = @ + 1]
    /\ LET db_attempt == QuizAttempt(db.next.attempt, quiz_id, actor, attempt_in)
           rejected == QuizById(db, quiz_id) = {} \/ ~QuizAttemptChecks(db_attempt)
       IN  /\ db' = [db EXCEPT !.attempts = IF rejected THEN @ ELSE @ \cup {db_attempt},
                               !.next.attempt = @ + 1]
           /\ last' = [op |-> "create_quiz_attempt", actor |-> actor, target |-> quiz_id,
                       code |-> IF rejected THEN 500 ELSE 200, pre |-> db,
                       body |-> attempt_in]
    /\ UNCHANGED <<req, log>>

\* chat_with_ai without a session_id: a new ChatSession of the caller
chat_with_ai(actor) ==
    /\ hist.calls < MaxOps
    /\ UserRows(db, actor) # {}
    /\ hist' = [hist EXCEPT !.calls = @ + 1]
    /\ Reply("chat_with_ai", actor, NoId, 200,
             [db EXCEPT !.chat_sessions = @ \cup {ChatSession(db.next.chat_session, actor)},
                        !.next.chat_session = @ + 1])
    /\ UNCHANGED <<req, log>>

(* The store the deletion runs start from: two teachers with a quiz and a   *)
(* course each, a student enrolled in both courses, teacher 3 enrolled in   *)
(* teacher 2's course.  Lesson 2, in teacher 3's course, either links to    *)
(* teacher 2's quiz by id and code, names it by code only, or links to      *)
(* teacher 3's own quiz.                                                    *)

QuizIds == 1..3        \* quiz 3 does not exist
TargetIds == 1..5      \* user 5 does not exist
Callers == {1, 2, 4}   \* callers of delete_quiz: super admin, teacher, student
Admins == {1, 2}       \* callers of the admin endpoints: super admin, teacher
Members == {2, 4}      \* callers that take quizzes and chat

LessonLinks == {[id |-> 1, code |-> "QZ1"], [id |-> NoId, code |-> "QZ1"],
                [id |-> 2, code |-> "QZ2"]}

Populated(link, attempts, participations) ==
    [EmptyDb EXCEPT
        !.users = {User(u) : u \in UserIds},
        !.quizzes = {Quiz(1, 2, "QZ1"), Quiz(2, 3, "QZ2")},
        !.questions = {Question(1, 1), Question(2, 2)},
        !.choices = {Choice(1, 1), Choice(2, 1), Choice(3, 2), Choice(4, 2)},
        !.attempts = attempts,
        !.participations = participations,
        !.courses = {Course(1, 2, "PUBLISHED", "C1"), Course(2, 3, "PUBLISHED", "C2")},
        !.lessons = {Lesson(1, 1, 1, "QZ1"), Lesson(2, 2, link.id, link.code)},
        !.enrollments = {[Enrollment(1, 4, 1) EXCEPT !.status = CompletionStatus(@, Percent(1, 1)),
                                                     !.progress_percent = Percent(1, 1)],
                         Enrollment(2, 4, 2), Enrollment(3, 3, 1)},
        !.lesson_progress = {LessonProgress(1, 1, 1, "COMPLETED", 0)},
        !.messages = {CommunityMessage(1, 4, 1), CommunityMessage(2, 2, 2)},
        !.feedback = {CourseFeedback(1, 4, 2), CourseFeedback(2, 3, 1)},
        !.next = [quiz |-> 3, question |-> 3, choice |-> 5, attempt |-> 2,
                  participation |-> 2, course |-> 3, lesson |-> 3, enrollment |-> 4,
                  lesson_progress |-> 2, message |-> 3, feedback |-> 3,
                  chat_session |-> 1]]

InitDelete ==
    /\ \E link \in LessonLinks :
       \E attempts \in {{}, {QuizAttempt(1, 1, 4, FullMarks)}} :
       \E participations \in {{}, {QuizParticipation(1, 1, 4)}} :
          db = Populated(link, attempts, participations)
    /\ req = [p \in Procs |-> Idle]
    /\ log = <<>>
    /\ hist = NoHist
    /\ last = NoLast

NextDelete ==
    \/ \E actor \in Callers, quiz_id \in QuizIds : delete_quiz(actor, quiz_id)
    \/ \E actor \in Admins, quiz_id \in QuizIds : admin_delete_quiz(actor, quiz_id)
    \/ \E actor \in Admins, user_id \in TargetIds : admin_delete_user(actor, user_id)
    \/ \E actor \in Members, quiz_id \in QuizIds : create_quiz_attempt(actor, quiz_id, FullMarks)
    \/ \E actor \in Members : chat_with_ai(actor)

SpecDelete == InitDelete /\ [][NextDelete]_vars

----------------------------------------------------------------------------
(* Deletion properties *)

\* The rows of store d that name one of the quizzes by id
RowsOnQuizzes(d, quiz_ids) ==
    [quizzes |-> {x \in d.quizzes : x.id \in quiz_ids},
     questions |-> {x \in d.questions : x.quiz \in quiz_ids},
     attempts |-> {x \in d.attempts : x.quiz \in quiz_ids},
     participations |-> {x \in d.participations : x.quiz \in quiz_ids},
     lessons |-> {x \in d.lessons : x.linked_quiz_id \in quiz_ids}]

NoRowsOnQuizzes ==
    [quizzes |-> {}, questions |-> {}, attempts |-> {}, participations |-> {},
     lessons |-> {}]

\* The rows of store d that name one of the courses by id
RowsOnCourses(d, course_ids) ==
    [courses |-> {x \in d.courses : x.id \in course_ids},
     lessons |-> {x \in d.lessons : x.course \in course_ids},
     enrollments |-> {x \in d.enrollments : x.course \in course_ids},
     messages |-> {x \in d.messages : x.course \in course_ids},
     feedback |-> {x \in d.feedback : x.course \in course_ids}]

NoRowsOnCourses ==
    [courses |-> {}, lessons |-> {}, enrollments |-> {}, messages |-> {},
     feedback |-> {}]

\* The rows of store d that name the user by id
RowsOnUser(d, u) ==
    [users |-> {x \in d.users : x.id = u},
     quizzes |-> {x \in d.quizzes : x.teacher = u},
     courses |-> {x \in d.courses : x.teacher = u},
     attempts |-> {x \in d.attempts : x.user = u},
     participations |-> {x \in d.participations : x.user = u},
     enrollments |-> {x \in d.enrollments : x.user = u},
     messages |-> {x \in d.messages : x.user = u},
     feedback |-> {x \in d.feedback : x.user = u},
     chat_sessions |-> {x \in d.chat_sessions : x.user = u}]

NoRowsOnUser ==
    [users |-> {}, quizzes |-> {}, courses |-> {}, attempts |-> {},
     participations |-> {}, enrollments |-> {}, messages |-> {}, feedback |-> {},
     chat_sessions |-> {}]

QuizDeleteRan ==
    /\ last.op \in {"delete_quiz", "admin_delete_quiz"}
    /\ last.code \notin {403, 404}

\* C9: an authorised delete_quiz or admin_delete_quiz of an existing quiz
\* succeeds, whatever questions, choices, attempts, participations and linked
\* lessons the quiz has; afterwards the quiz, its questions and their choices,
\* its attempts and its participations are gone, and every lesson that linked
\* to it has linked_quiz_id and quiz_code null.
C9_QuizDeleteClean ==
    QuizDeleteRan =>
        /\ last.code = 204
        /\ RowsOnQuizzes(db, {last.target}) = NoRowsOnQuizzes
        /\ ChoicesOf(db, QuestionsOf(last.pre, {last.target})) = {}
        /\ \A l \in db.lessons :
              l.id \in Ids(RowsOnQuizzes(last.pre, {last.target}).lessons)
                  => l.linked_quiz_id = NoId /\ l.quiz_code = NoCode

UserDeleteRan ==
    /\ last.op = "admin_delete_user"
    /\ last.code \notin {400, 403, 404}

----------------------------------------------------------------------------
(* admin_delete_user statement by statement.  The session runs every        *)
(* statement inside one transaction (autocommit=False): the statements act  *)
(* on the session's view txn of the store, and the committed store changes  *)
(* at the commit only.  Any statement may fail (the connection drops, the   *)
(* store raises); an exception before the commit leaves the handler, get_db *)
(* closes the session and the transaction is rolled back.                   *)

\* AsyncSessionLocal = async_sessionmaker(..., autocommit=False, ...)
AutocommitOn == TRUE

autocommit == FALSE

Stages ==
    <<"delete_participations", "delete_attempts", "select_enrollments",
      "delete_messages", "delete_feedback", "select_quizzes", "unlink_lessons",
      "delete_quiz_participations", "delete_quiz_attempts", "delete_quizzes",
      "select_courses", "delete_user", "commit">>

StageNo(name) == CHOOSE i \in 1..Len(Stages) : Stages[i] = name

\* The request after the statement at r.pc has run
Executed(r) ==
    LET u == r.target
        t == r.txn
    IN  CASE r.pc = "delete_participations" ->
               [r EXCEPT !.txn.participations = {x \in @ : x.user # u}]
          [] r.pc = "delete_attempts" ->
               [r EXCEPT !.txn.attempts = {x \in @ : x.user # u}]
          [] r.pc = "select_enrollments" ->
               [r EXCEPT !.user_enrollments = Ids({e \in t.enrollments : e.user = u})]
          [] r.pc = "delete_messages" ->
               [r EXCEPT !.txn.messages = {x \in @ : x.user # u}]
          [] r.pc = "delete_feedback" ->
               [r EXCEPT !.txn.feedback = {x \in @ : x.user # u}]
          [] r.pc = "select_quizzes" ->
               [r EXCEPT !.quiz_ids = Ids({q \in t.quizzes : q.teacher = u})]
          [] r.pc = "unlink_lessons" ->
               [r EXCEPT !.txn.lessons = UnlinkLessons(t, r.quiz_ids)]
          [] r.pc = "delete_quiz_participations" ->
               [r EXCEPT !.txn.participations = {x \in @ : x.quiz \notin r.quiz_ids}]
          [] r.pc = "delete_quiz_attempts" ->
               [r EXCEPT !.txn.attempts = {x \in @ : x.quiz \notin r.quiz_ids}]
          [] r.pc = "delete_quizzes" ->
               [r EXCEPT !.deleted_quizzes = r.quiz_ids]
          [] r.pc = "select_courses" ->
               [r EXCEPT !.deleted_courses = Ids({c \in t.courses : c.teacher = u})]
          [] r.pc = "delete_user" ->
               [r EXCEPT !.deleted_user = TRUE]
          [] OTHER -> r

\* if quizzes: ... skips the four quiz statements when the target owns none
NextStage(r) ==
    IF r.pc = "select_quizzes" /\ r.quiz_ids = {} THEN "select_courses"
    ELSE Stages[StageNo(r.pc) + 1]

\* The flush of the commit: the pending db.delete(obj) of the session
Flushed(r) ==
    LET f1 == FlushDeleteEnrollments(r.txn, r.user_enrollments)
        f2 == FlushDeleteQuizzes(f1, r.deleted_quizzes)
        f3 == FlushDeleteCourses(f2, r.deleted_courses)
        f4 == [f3 EXCEPT !.users = {u \in @ : u.id # r.target}]
        failed == \/ QuizReferenceError(f1, r.deleted_quizzes)
                  \/ UserBackrefError(f3, r.target)
                  \/ UserReferenceError(f3, r.target)
    IN  [code |-> IF failed THEN 500 ELSE 204, db |-> IF failed THEN r.txn ELSE f4]

\* What last keeps of a staged request: the statement it ended at and the
\* session's view at that point, besides what Reply keeps.
StagedReply(r, code) ==
    [op |-> r.op, actor |-> r.actor, target |-> r.target, code |-> code,
     pre |-> r.pre, stage |-> r.pc, view |-> r.txn]

DeleteUserBegin(p, actor, user_id) ==
    /\ InFlight = {}
    /\ hist.calls < MaxOps
    /\ hist' = [hist EXCEPT !.calls = @ + 1]
    /\ UserRows(db, actor) # {}
    /\ IF ~is_super_admin(actor) THEN Reply("admin_delete_user", actor, user_id, 403, db) /\ UNCHANGED req
       ELSE IF UserRows(db, user_id) = {} THEN Reply("admin_delete_user", actor, user_id, 404, db) /\ UNCHANGED req
       ELSE IF user_id = actor THEN Reply("admin_delete_user", actor, user_id, 400, db) /\ UNCHANGED req
       ELSE /\ req' = [req EXCEPT ![p] =
                         [op |-> "admin_delete_user", pc |-> Stages[1], actor |-> actor,
                          target |-> user_id, pre |-> db, txn |-> db,
                          user_enrollments |-> {}, quiz_ids |-> {}, deleted_quizzes |-> {},
                          deleted_courses |-> {}, deleted_user |-> FALSE]]
            /\ UNCHANGED <<db, last>>
    /\ UNCHANGED log

\* One statement before the commit: it runs in the transaction, or raises
DeleteUserStatement(p) ==
    /\ req[p].op = "admin_delete_user"
    /\ req[p].pc # "commit"
    /\ \/ LET r == Executed(req[p]) IN
          /\ req' = [req EXCEPT ![p] = [r EXCEPT !.pc = NextStage(r)]]
          /\ db' = IF autocommit THEN r.txn ELSE db
          /\ last' = last
       \/ /\ req' = [req EXCEPT ![p] = Idle]
          /\ last' = StagedReply(req[p], 500)
          /\ db' = db
    /\ UNCHANGED <<log, hist>>

\* try: await db.commit() / except: await db.rollback(); raise 500
DeleteUserCommit(p) ==
    /\ req[p].op = "admin_delete_user"
    /\ req[p].pc = "commit"
    /\ LET done == Flushed(req[p]) IN
       /\ db' = IF done.code = 204 THEN done.db ELSE db
       /\ last' = StagedReply(req[p], done.code)
    /\ req' = [req EXCEPT ![p] = Idle]
    /\ UNCHANGED <<log, hist>>

NextStages ==
    \/ \E actor \in Admins, user_id \in TargetIds : DeleteUserBegin("p1", actor, user_id)
    \/ DeleteUserStatement("p1")
    \/ DeleteUserCommit("p1")
    \/ InFlight = {} /\ \E actor \in Members, quiz_id \in QuizIds : create_quiz_attempt(actor, quiz_id, FullMarks)
    \/ InFlight = {} /\ \E actor \in Members : chat_with_ai(actor)

SpecStages == InitDelete /\ [][NextStages]_vars

StagedDeleteReturned == last.op = "admin_delete_user" /\ "stage" \in DOMAIN last

\* C11: admin_delete_user is all-or-nothing.  While its statements run the
\* committed store is the store the call started from; when the call fails,
\* at whichever statement or at the commit, the committed store is still that
\* store; when it succeeds the store holds the effect of every stage.
C11_AllOrNothing ==
    /\ \A p \in InFlight : db = req[p].pre
    /\ StagedDeleteReturned =>
          IF last.code = 204
          THEN /\ AdminDeleteUserTxn(last.pre, last.target) = [code |-> 204, db |-> db]
               /\ RowsOnUser(db, last.target) = NoRowsOnUser
          ELSE db = last.pre

C11_Witness ==
    /\ StagedDeleteReturned
    /\ last.code = 500
    /\ last.stage = "delete_quizzes"
    /\ last.view.attempts # last.pre.attempts
    /\ last.view.lessons # last.pre.lessons
    /\ db = last.pre

\* C12: a super admin who calls admin_delete_user with their own id is
\* rejected as Forbidden (403) before any statement runs, and the store is
\* unchanged.
C12_SelfDeleteForbidden ==
    (last.op = "admin_delete_user" /\ is_super_admin(last.actor)
        /\ last.target = last.actor)
        => last.code = 403 /\ db = last.pre

----------------------------------------------------------------------------
(* The course-side handlers of courses.py that write, each one commit. *)

\* course.teacher_id != current_user.id and current_user.role != SUPER_ADMIN
NotCourseOwner(course, actor) == course.teacher # actor /\ ~is_super_admin(actor)

\* Lesson.progress_records: cascade="all, delete-orphan"
FlushDeleteLessons(d, lesson_ids) ==
    [d EXCEPT !.lessons = {l \in @ : l.id \notin lesson_ids},
              !.lesson_progress = {r \in @ : r.lesson \notin lesson_ids}]

delete_course(actor, course_id) ==
    /\ UserRows(db, actor) # {}
    /\ LET found == CourseById(db, course_id) IN
       IF found = {} THEN Reply("delete_course", actor, course_id, 404, db)
       ELSE \E course \in found :
            IF NotCourseOwner(course, actor)
            THEN Reply("delete_course", actor, course_id, 403, db)
            ELSE Reply("delete_course", actor, course_id, 204,
                       FlushDeleteCourses(db, {course_id}))
    /\ UNCHANGED <<req, log, hist>>

delete_lesson(actor, course_id, lesson_id) ==
    /\ UserRows(db, actor) # {}
    /\ LET found == CourseById(db, course_id) IN
       IF found = {} THEN Reply("delete_lesson", actor, lesson_id, 404, db)
       ELSE \E course \in found :
            IF NotCourseOwner(course, actor)
            THEN Reply("delete_lesson", actor, lesson_id, 403, db)
            ELSE IF \A l \in LessonById(db, lesson_id) : l.course # course_id
            THEN Reply("delete_lesson", actor, lesson_id, 404, db)
            ELSE Reply("delete_lesson", actor, lesson_id, 204,
                       FlushDeleteLessons(db, {lesson_id}))
    /\ UNCHANGED <<req, log, hist>>

\* add_lesson: linked_quiz_id and quiz_code are stored as sent; the store
\* rejects a linked_quiz_id that names no quiz.
add_lesson(actor, course_id, linked_quiz_id, quiz_code) ==
    /\ hist.calls < MaxOps
    /\ UserRows(db, actor) # {}
    /\ hist' = [hist EXCEPT !.calls = @ + 1]
    /\ LET found == CourseById(db, course_id) IN
       IF found = {} THEN Reply("add_lesson", actor, course_id, 404, db)
       ELSE \E course \in found :
            IF NotCourseOwner(course, actor)
            THEN Reply("add_lesson", actor, course_id, 403, db)
            ELSE IF linked_quiz_id # NoId /\ QuizById(db, linked_quiz_id) = {}
            THEN Reply("add_lesson", actor, course_id, 500,
                       [db EXCEPT !.next.lesson = @ + 1])
            ELSE Reply("add_lesson", actor, course_id, 201,
                       [db EXCEPT !.lessons = @ \cup {Lesson(db.next.lesson, course_id,
                                                            linked_quiz_id, quiz_code)},
                                  !.next.lesson = @ + 1])
    /\ UNCHANGED <<req, log>>

\* post_community_message: no check in the handler; the store rejects a
\* message for a course that does not exist.
post_community_message(actor, course_id) ==
    /\ hist.calls < MaxOps
    /\ UserRows(db, actor) # {}
    /\ hist' = [hist EXCEPT !.calls = @ + 1]
    /\ IF CourseById(db, course_id) = {}
       THEN Reply("post_community_message", actor, course_id, 500,
                  [db EXCEPT !.next.message = @ + 1])
       ELSE Reply("post_community_message", actor, course_id, 200,
                  [db EXCEPT !.messages = @ \cup {CommunityMessage(db.next.message, actor, course_id)},
                             !.next.message = @ + 1])
    /\ UNCHANGED <<req, log>>

\* post_feedback: enrolled callers only, once per course
post_feedback(actor, course_id) ==
    /\ hist.calls < MaxOps
    /\ UserRows(db, actor) # {}
    /\ hist' = [hist EXCEPT !.calls = @ + 1]
    /\ IF ExistingEnrollment(db, actor, course_id) = {}
       THEN Reply("post_feedback", actor, course_id, 403, db)
       ELSE IF \E f \in db.feedback : f.user = actor /\ f.course = course_id
       THEN Reply("post_feedback", actor, course_id, 400, db)
       ELSE Reply("post_feedback", actor, course_id, 200,
                  [db EXCEPT !.feedback = @ \cup {CourseFeedback(db.next.feedback, actor, course_id)},
                             !.next.feedback = @ + 1])
    /\ UNCHANGED <<req, log>>

----------------------------------------------------------------------------
(* Every writing handler over the populated store.  enroll_in_course and    *)
(* update_lesson_progress run in handler p1, split at their awaits, so the  *)
(* one-commit handlers also land between their statements.                  *)

CourseIds == 1..3      \* course 3 does not exist

NewLessonLinks == {[id |-> NoId, code |-> NoCode], [id |-> 2, code |-> "QZ2"],
                   [id |-> 3, code |-> "QZ3"]}

\* Requests that add rows, begun so far: at most MaxOps in a run
Requests == hist.calls + Len(log) + Cardinality({p \in Procs : req[p].op = "enroll"})

InitStore ==
    /\ \E link \in {k \in LessonLinks : k.code = "QZ1"} :
          db = Populated(link, {QuizAttempt(1, 1, 4, FullMarks)}, {QuizParticipation(1, 1, 4)})
    /\ req = [p \in Procs |-> Idle]
    /\ log = <<>>
    /\ hist = NoHist
    /\ last = NoLast

NextStore ==
    \/ \E quiz_id \in {1, 2} : delete_quiz(2, quiz_id)
    \/ \E quiz_id \in {2, 3} : admin_delete_quiz(1, quiz_id)
    \/ \E user_id \in {2, 3, 4} : admin_delete_user(1, user_id)
    \/ \E course_id \in CourseIds : delete_course(2, course_id)
    \/ \E lesson_id \in {1, 3} : delete_lesson(2, 1, lesson_id)
    \/ Requests < MaxOps /\ \E quiz_id \in {2, 3} : create_quiz_attempt(4, quiz_id, FullMarks)
    \/ Requests < MaxOps /\ chat_with_ai(2)
    \/ Requests < MaxOps /\ \E link \in NewLessonLinks : add_lesson(2, 1, link.id, link.code)
    \/ Requests < MaxOps /\ \E course_id \in {1, 3} : post_community_message(2, course_id)
    \/ Requests < MaxOps /\ \E course_id \in {1, 2} : post_feedback(4, course_id)
    \/ Requests < MaxOps /\ \E c \in {1, 3} : EnrollBegin("p1", 2, c)
    \/ Requests < MaxOps /\ ProgBegin("p1", 4, 2, "COMPLETED", NoneTime)
    \/ EnrollCheckExisting("p1")
    \/ EnrollInsert("p1")
    \/ ProgGetEnrollment("p1")
    \/ ProgGetProgress("p1")
    \/ ProgCommit1("p1")
    \/ ProgCountTotal("p1")
    \/ ProgCountCompleted("p1")
    \/ ProgCommit2("p1")

SpecStore == InitStore /\ [][NextStore]_vars

----------------------------------------------------------------------------
(* Properties over every handler *)

\* The lesson-progress rows of store d that belong to lessons or enrollments
\* of one of the courses
ProgressOnCourses(d, course_ids) ==
    {r \in d.lesson_progress :
        \/ r.lesson \in Ids(RowsOnCourses(d, course_ids).lessons)
        \/ r.enrollment \in Ids(RowsOnCourses(d, course_ids).enrollments)}

CourseDeleteRan == last.op = "delete_course" /\ last.code \notin {403, 404}

\* C13: delete_course by the owner succeeds without an integrity error on a
\* course with lessons, enrollments of other users, lesson progress, messages
\* and feedback; afterwards the course and all of these rows are gone.
C13_CourseDeleteClean ==
    CourseDeleteRan =>
        /\ last.code = 204
        /\ RowsOnCourses(db, {last.target}) = NoRowsOnCourses
        /\ \A r \in ProgressOnCourses(last.pre, {last.target}) :
              r.id \notin Ids(db.lesson_progress)

C13_Witness ==
    /\ CourseDeleteRan
    /\ last.code = 204
    /\ LET had == RowsOnCourses(last.pre, {last.target}) IN
       /\ had.lessons # {}
       /\ \E e \in had.enrollments : e.user # last.actor
       /\ had.messages # {}
       /\ had.feedback # {}
    /\ ProgressOnCourses(last.pre, {last.target}) # {}

\* C14: in every committed state every non-null reference names an existing
\* row: enrollments their user and course, lesson progress its enrollment and
\* lesson, lessons their course and linked quiz, attempts and participations
\* their quiz and user, messages and feedback their user and course.
C14_ReferencesLive ==
    LET users == Ids(db.users)
        quizzes == Ids(db.quizzes)
        courses == Ids(db.courses)
    IN  /\ \A e \in db.enrollments : e.user \in users /\ e.course \in courses
        /\ \A r \in db.lesson_progress :
              r.enrollment \in Ids(db.enrollments) /\ r.lesson \in Ids(db.lessons)
        /\ \A l \in db.lessons :
              l.course \in courses /\ (l.linked_quiz_id = NoId \/ l.linked_quiz_id \in quizzes)
        /\ \A a \in db.attempts : a.quiz \in quizzes /\ a.user \in users
        /\ \A a \in db.participations : a.quiz \in quizzes /\ a.user \in users
        /\ \A x \in db.messages : x.user \in users /\ x.course \in courses
        /\ \A x \in db.feedback : x.user \in users /\ x.course \in courses

\* An attempt on a quiz that was deleted is refused, while a lesson that
\* linked to a deleted quiz is still there, unlinked.
C14_Witness ==
    /\ last.op = "create_quiz_attempt" /\ last.code = 500
    /\ QuizById(db, last.target) = {}
    /\ Cardinality(db.quizzes) < 2
    /\ Cardinality(db.users) < Cardinality(UserIds)
    /\ \E l \in db.lessons : l.linked_quiz_id = NoId /\ l.quiz_code # NoCode

(***************************************************************************)
(* Quiz attempts and the teacher dashboard                                 *)
(* (app/api/v1/endpoints/quizzes.py).                                      *)
(***************************************************************************)

\* Values a client can put in score, total_questions and correct_answers.
Scores == {-1, 0}
Totals == 0..2
Corrects == -1..2

AttemptInputs ==
    {QuizAttemptCreate(s, t, c, NoCode) : s \in Scores, t \in Totals, c \in Corrects}

RECURSIVE SumCorrect(_)
SumCorrect(rows) ==
    IF rows = {} THEN 0
    ELSE LET a == CHOOSE x \in rows : TRUE
         IN  a.correct_answers + SumCorrect(rows \ {a})

RECURSIVE SumTotal(_)
SumTotal(rows) ==
    IF rows = {} THEN 0
    ELSE LET a == CHOOSE x \in rows : TRUE
         IN  a.total_questions + SumTotal(rows \ {a})

\* select(...).join(Quiz).where(Quiz.teacher_id == current_user.id)
JoinQuiz(d, teacher) ==
    {a \in d.attempts : \E q \in d.quizzes : q.id = a.quiz /\ q.teacher = teacher}

\* A fraction num/den, den > 0; the code's floats are kept exact.
Frac(num, den) == [num |-> num, den |-> den]

RECURSIVE TotalsProduct(_)
TotalsProduct(rows) ==
    IF rows = {} THEN 1
    ELSE LET a == CHOOSE x \in rows : TRUE
         IN  (IF a.total_questions > 0 THEN a.total_questions ELSE 1)
                 * TotalsProduct(rows \ {a})

RECURSIVE PercentSum(_, _)
PercentSum(rows, scale) ==
    IF rows = {} THEN 0
    ELSE LET a == CHOOSE x \in rows : TRUE
         IN  (IF a.total_questions > 0
              THEN 100 * a.correct_answers * (scale \div a.total_questions)
              ELSE 0) + PercentSum(rows \ {a}, scale)

\* The mean of the attempts' own percentages.
MeanOfPercentages(rows) ==
    IF rows = {} THEN Frac(0, 1)
    ELSE Frac(PercentSum(rows, TotalsProduct(rows)),
              TotalsProduct(rows) * Cardinality(rows))

\* comp_rate = (res[0] / res[1] * 100) if res and res[1] and res[1] > 0 else 0.0
comp_rate(rows) ==
    IF SumTotal(rows) > 0 THEN Frac(100 * SumCorrect(rows), SumTotal(rows))
    ELSE Frac(0, 1)

\* round(x, 1), in tenths: to the nearest tenth, a tie to the even one.
round1(x) ==
    LET q == (10 * x.num) \div x.den
        r == (10 * x.num) % x.den
    IN  IF 2 * r < x.den THEN q
        ELSE IF 2 * r > x.den THEN q + 1
        ELSE IF q % 2 = 0 THEN q ELSE q + 1

get_teacher_stats(actor) ==
    /\ UserRows(db, actor) # {}
    /\ LET rows == JoinQuiz(db, actor)
           stats == [total_quizzes |-> Cardinality({q \in db.quizzes : q.teacher = actor}),
                     total_students |-> Cardinality({a.user : a \in rows}),
                     comp_rate |-> comp_rate(rows),
                     avg_completion_rate |-> round1(comp_rate(rows))]
       IN  /\ last' = [op |-> "get_teacher_stats", actor |-> actor, target |-> NoId,
                       code |-> 200, pre |-> db, view |-> stats]
           /\ UNCHANGED <<db, req, log, hist>>

InitAttempts ==
    /\ db = Populated(CHOOSE k \in LessonLinks : k.id = 1, {}, {})
    /\ req = [p \in Procs |-> Idle]
    /\ log = <<>>
    /\ hist = NoHist
    /\ last = NoLast

NextAttempts ==
    \/ \E quiz_id \in QuizIds, attempt_in \in AttemptInputs :
          create_quiz_attempt(4, quiz_id, attempt_in)
    \/ \E actor \in {2, 3} : get_teacher_stats(actor)
    \/ \E quiz_id \in {1, 2} : delete_quiz(2, quiz_id)
    \/ admin_delete_quiz(1, 2)
    \/ \E user_id \in {2, 3, 4} : admin_delete_user(1, user_id)
    \/ delete_course(2, 1)

SpecAttempts == InitAttempts /\ [][NextAttempts]_vars

AttemptSubmitted == last.op = "create_quiz_attempt"

InvalidAttempt(attempt_in) ==
    \/ attempt_in.correct_answers > attempt_in.total_questions
    \/ attempt_in.correct_answers < 0
    \/ attempt_in.score < 0

\* C15: a submission with correct_answers > total_questions, correct_answers < 0
\* or score < 0 returns an error and stores no row, so every stored attempt
\* has 0 <= correct_answers <= total_questions and score >= 0.
C15_InvalidAttemptRejected ==
    /\ (AttemptSubmitted /\ InvalidAttempt(last.body)) =>
          last.code # 200 /\ db.attempts = last.pre.attempts
    /\ \A a \in db.attempts :
          0 <= a.correct_answers /\ a.correct_answers <= a.total_questions /\ a.score >= 0

\* An invalid submission on an existing quiz was refused after a valid one
\* was stored.
C15_Witness ==
    /\ AttemptSubmitted /\ InvalidAttempt(last.body)
    /\ QuizById(last.pre, last.target) # {}
    /\ last.code = 500
    /\ db.attempts # {}

QuizOwners(d, quiz_id) == {q.teacher : q \in QuizById(d, quiz_id)}

\* C16: no step changes a field of a stored QuizAttempt; a further attempt
\* adds a row with a new id beside the earlier ones; a row disappears only in
\* a step that deletes its user or the owner of its quiz.
C16_AttemptsAppendOnly ==
    [][/\ \A a \in db.attempts :
             \/ a \in db'.attempts
             \/ /\ a.id \notin Ids(db'.attempts)
                /\ \/ a.user \notin Ids(db'.users)
                   \/ QuizOwners(db, a.quiz) \cap Ids(db'.users) = {}
       /\ \A b \in db'.attempts \ db.attempts :
             /\ b.id \notin Ids(db.attempts)
             /\ db.attempts \subseteq db'.attempts]_vars

\* The same user has two attempts on the same quiz, the earlier one next to
\* the later one with a different result.
C16_Witness ==
    \E a, b \in db.attempts :
        /\ a.id < b.id /\ a.user = b.user /\ a.quiz = b.quiz
        /\ a.correct_answers # b.correct_answers

StatsReturned == last.op = "get_teacher_stats"

\* The attempts on the quizzes the teacher owns.
AttemptsOnQuizzesOf(d, teacher) == {a \in d.attempts : teacher \in QuizOwners(d, a.quiz)}

\* C17: avg_completion_rate is 100 * sum(correct_answers) / sum(total_questions)
\* over all attempts on the teacher's quizzes, 0 when the pooled total is 0;
\* the response carries it to the nearest tenth.
C17_PooledCompletionRate ==
    StatsReturned =>
        LET rows == AttemptsOnQuizzesOf(db, last.actor)
            correct == SumCorrect(rows)
            total == SumTotal(rows)
            tenths == last.view.avg_completion_rate
            off == tenths * total - 1000 * correct
        IN  IF total = 0
            THEN tenths = 0 /\ last.view.comp_rate.num = 0
            ELSE /\ last.view.comp_rate.num * total = 100 * correct * last.view.comp_rate.den
                 /\ 2 * off <= total /\ -2 * off <= total

\* Two attempts with different totals, where the pooled rate differs from the
\* mean of the two percentages.
C17_Witness ==
    /\ StatsReturned
    /\ LET rows == AttemptsOnQuizzesOf(db, last.actor)
       IN  /\ \E a, b \in rows : a.total_questions # b.total_questions
           /\ last.view.avg_completion_rate # round1(MeanOfPercentages(rows))
           /\ last.view.avg_completion_rate \notin {0, 1000}

(***************************************************************************)
(* Access codes: create_quiz, create_course, update_course and the         *)
(* catalogue search of list_courses.  Codes, titles and search strings are *)
(* tuples of characters.                                                   *)
(***************************************************************************)

NoText == <<>>                \* None, or the empty string
CodeChars == {"A", "B"}       \* of string.ascii_uppercase + string.digits
QuizCodeLength == 1           \* generate_access_code(length=6), shortened
CourseCodeLength == 1         \* generate_access_code(length=8), shortened
DraftCodeLength == 1          \* generate_access_code(4), shortened
max_attempts == 10

\* ''.join(random.choices(string.ascii_uppercase + string.digits, k=length))
RECURSIVE generate_access_code(_)
generate_access_code(length) ==
    IF length = 0 THEN {<<>>}
    ELSE {Append(code, c) : code \in generate_access_code(length - 1), c \in CodeChars}

\* A lookup that never finds a quiz.
ExistingQuizCodeMissed(d, access_code) == FALSE

\* select(Quiz).where(Quiz.access_code == access_code)
ExistingQuizCode(d, access_code) == \E q \in d.quizzes : q.access_code = access_code

QuizCodes(d) == {q.access_code : q \in d.quizzes}

CreateQuizReply(r, code, detail) ==
    [op |-> "create_quiz", actor |-> r.actor, target |-> NoId, code |-> code,
     pre |-> db, detail |-> detail, access_code |-> r.access_code,
     attempts |-> r.attempts, seen |-> r.seen]

\* Bodies of POST /quizzes and PUT /quizzes/{quiz_id} (schemas/quiz.py): a
\* question carries its question_type, any string, and its choices, given
\* here by their is_correct flags; texts, points and time limits are valid.
QuestionCreate(question_type, choices) == [question_type |-> question_type, choices |-> choices]
QuizCreate(questions) == [questions |-> questions]

\* class QuestionType
QuestionType == {"multiple_choice", "true_false", "multiple_select"}

\* Rows of questions and choices with the columns the bodies set
QuestionRow(id, quiz, question_type) == [id |-> id, quiz |-> quiz, question_type |-> question_type]
ChoiceRow(id, question, is_correct) == [id |-> id, question |-> question, is_correct |-> is_correct]

\* any(choice.is_correct for choice in question.choices)
AnyCorrect(question) == \E j \in 1..Len(question.choices) : question.choices[j]

\* The per-question checks of create_quiz: the type, the choices, a correct one
QuestionError(question) ==
    \/ question.question_type \notin QuestionType
    \/ question.choices = <<>>
    \/ ~AnyCorrect(question)

\* The validation block of create_quiz: 0 when the body passes
QuizValidation(quiz_in) ==
    IF quiz_in.questions = <<>> THEN 400
    ELSE IF \E i \in 1..Len(quiz_in.questions) : QuestionError(quiz_in.questions[i]) THEN 422
    ELSE 0

\* Choices added before question i of the body
RECURSIVE ChoicesBefore(_, _)
ChoicesBefore(questions, i) ==
    IF i <= 1 THEN 0
    ELSE ChoicesBefore(questions, i - 1) + Len(questions[i - 1].choices)

\* "Add Questions and Choices": the rows in the order of the body
AddQuestions(d, quiz_id, questions) ==
    [d EXCEPT
       !.questions = @ \cup {QuestionRow(d.next.question + i - 1, quiz_id, questions[i].question_type) :
                               i \in 1..Len(questions)},
       !.choices = @ \cup UNION {{ChoiceRow(d.next.choice + ChoicesBefore(questions, i) + j - 1,
                                            d.next.question + i - 1, questions[i].choices[j]) :
                                      j \in 1..Len(questions[i].choices)} :
                                  i \in 1..Len(questions)},
       !.next.question = @ + Len(questions),
       !.next.choice = @ + ChoicesBefore(questions, Len(questions) + 1)]

\* create_quiz: the body is validated, then the first candidate is drawn
CreateQuizBegin(p, actor, access_code, quiz_in) ==
    /\ req[p].pc = "idle"
    /\ hist.calls < MaxOps
    /\ UserRows(db, actor) # {}
    /\ hist' = [hist EXCEPT !.calls = @ + 1]
    /\ LET r == [op |-> "create_quiz", pc |-> "check", actor |-> actor,
                 access_code |-> access_code, attempts |-> 0, seen |-> {},
                 quiz_in |-> quiz_in]
       IN  IF QuizValidation(quiz_in) # 0
           THEN /\ last' = CreateQuizReply(r, QuizValidation(quiz_in), "validation")
                /\ UNCHANGED req
           ELSE /\ req' = [req EXCEPT ![p] = r]
                /\ UNCHANGED last
    /\ UNCHANGED <<db, log>>

\* One pass of the while loop: the SELECT, then break or a new candidate;
\* when the loop ends with attempts >= max_attempts the handler raises.
CreateQuizCheck(p) ==
    /\ req[p].op = "create_quiz" /\ req[p].pc = "check"
    /\ LET r == req[p] IN
       IF ~ExistingQuizCode(db, r.access_code)
       THEN /\ req' = [req EXCEPT ![p].pc = "insert", ![p].seen = QuizCodes(db)]
            /\ UNCHANGED <<db, last>>
       ELSE \E access_code \in generate_access_code(QuizCodeLength) :
            LET retry == [r EXCEPT !.access_code = access_code, !.attempts = @ + 1]
            IN  IF retry.attempts < max_attempts
                THEN req' = [req EXCEPT ![p] = retry] /\ UNCHANGED <<db, last>>
                ELSE /\ req' = [req EXCEPT ![p] = Idle]
                     /\ last' = CreateQuizReply(retry, 500, "Failed to generate a unique access code")
                     /\ UNCHANGED db
    /\ UNCHANGED <<log, hist>>

\* db.add(db_quiz), flush, the questions and choices, commit; the unique
\* index on quizzes.access_code rejects a code committed in the meantime.
CreateQuizInsert(p) ==
    /\ req[p].op = "create_quiz" /\ req[p].pc = "insert"
    /\ LET r == req[p] IN
       IF r.access_code \in QuizCodes(db)
       THEN /\ last' = CreateQuizReply(r, 500, "An unexpected error occurred")
            /\ UNCHANGED db
       ELSE /\ last' = CreateQuizReply(r, 201, "")
            /\ db' = AddQuestions([db EXCEPT
                                     !.quizzes = @ \cup {Quiz(db.next.quiz, r.actor, r.access_code)},
                                     !.next.quiz = @ + 1],
                                  db.next.quiz, r.quiz_in.questions)
    /\ req' = [req EXCEPT ![p] = Idle]
    /\ UNCHANGED <<log, hist>>

----------------------------------------------------------------------------
(* Courses with their text columns *)

MaxChecks == 11   \* lookups of one course-code loop that a run follows

CatalogCourse(id, teacher, status, access_code, title, category) ==
    [id |-> id, teacher |-> teacher, status |-> status, access_code |-> access_code,
     title |-> title, category |-> category]

\* str.upper(), one character
UpperChar(c) ==
    CASE c = "a" -> "A" [] c = "b" -> "B" [] c = "d" -> "D" [] c = "f" -> "F"
      [] c = "m" -> "M" [] c = "r" -> "R" [] c = "t" -> "T" [] OTHER -> c

RECURSIVE upper(_)
upper(text) ==
    IF text = <<>> THEN <<>> ELSE <<UpperChar(Head(text))>> \o upper(Tail(text))

\* str.strip(): leading and trailing blanks go
RECURSIVE strip(_)
strip(text) ==
    IF text = <<>> THEN text
    ELSE IF Head(text) = " " THEN strip(Tail(text))
    ELSE IF text[Len(text)] = " " THEN strip(SubSeq(text, 1, Len(text) - 1))
    ELSE text

\* column ILIKE '%search%': a NULL column never matches, letters match
\* whatever their case, and '_' in the pattern matches any one character
ilike(column, search) ==
    /\ column # NoText
    /\ \E i \in 1..(Len(column) - Len(search) + 1) :
          \A j \in 1..Len(search) :
              search[j] = "_" \/ UpperChar(column[i + j - 1]) = UpperChar(search[j])

\* f"DRAFT_{generate_access_code(4)}"
DraftPlaceholder(code) == <<"D", "R", "A", "F", "T", "_">> \o code

\* select(Course).where(Course.access_code == access_code)
ExistingCourseCode(d, access_code) ==
    \E c \in d.courses : c.access_code # NoText /\ c.access_code = access_code

\* the unique index on courses.access_code, for an INSERT or UPDATE of row id
CourseCodeConflict(d, id, access_code) ==
    \E c \in d.courses : c.id # id /\ c.access_code # NoText /\ c.access_code = access_code

CourseCreate(status, access_code, title, category) ==
    [status |-> status, access_code |-> access_code, title |-> title, category |-> category]

CourseReply(r, code) ==
    [op |-> r.op, actor |-> r.actor, target |-> r.course.id, code |-> code,
     pre |-> db, checks |-> r.checks]

\* create_course up to the first await: the role check and the choice of code
CreateCourseBegin(p, actor, course_in) ==
    /\ req[p].pc = "idle"
    /\ hist.calls < MaxOps
    /\ UserRows(db, actor) # {}
    /\ hist' = [hist EXCEPT !.calls = @ + 1]
    /\ IF UserRole(actor) \notin {"TEACHER", "SUPER_ADMIN"}
       THEN /\ last' = [op |-> "create_course", actor |-> actor, target |-> NoId,
                        code |-> 403, pre |-> db, checks |-> 0]
            /\ UNCHANGED req
       ELSE \E drawn \in generate_access_code(CourseCodeLength),
               draft \in generate_access_code(DraftCodeLength) :
            LET given == course_in.access_code # NoText
                loop == course_in.status # "DRAFT" /\ ~given
                access_code ==
                    IF given THEN upper(strip(course_in.access_code))
                    ELSE IF course_in.status # "DRAFT" THEN drawn
                    ELSE DraftPlaceholder(draft)
            IN  /\ req' = [req EXCEPT ![p] =
                             [op |-> "create_course", pc |-> IF loop THEN "check" ELSE "flush",
                              actor |-> actor, checks |-> 0,
                              course |-> CatalogCourse(NoId, actor, course_in.status, access_code,
                                                       course_in.title, course_in.category)]]
                /\ UNCHANGED last
    /\ UNCHANGED <<db, log>>

\* One pass of `while True`: the SELECT, then break or a new candidate
CourseCodeCheck(p) ==
    /\ req[p].op \in {"create_course", "update_course"} /\ req[p].pc = "check"
    /\ req[p].checks < MaxChecks
    /\ LET r == req[p] IN
       IF ~ExistingCourseCode(db, r.course.access_code)
       THEN req' = [req EXCEPT ![p].pc = "flush", ![p].checks = @ + 1]
       ELSE \E access_code \in generate_access_code(CourseCodeLength) :
               req' = [req EXCEPT ![p].course.access_code = access_code,
                                  ![p].checks = @ + 1]
    /\ UNCHANGED <<db, log, hist, last>>

\* db.add(db_course), flush, commit
CreateCourseFlush(p) ==
    /\ req[p].op = "create_course" /\ req[p].pc = "flush"
    /\ LET r == req[p]
           row == [r.course EXCEPT !.id = db.next.course]
       IN  IF CourseCodeConflict(db, row.id, row.access_code)
           THEN /\ last' = CourseReply(r, 500)
                /\ db' = [db EXCEPT !.next.course = @ + 1]
           ELSE /\ last' = CourseReply([r EXCEPT !.course = row], 201)
                /\ db' = [db EXCEPT !.courses = @ \cup {row}, !.next.course = @ + 1]
    /\ req' = [req EXCEPT ![p] = Idle]
    /\ UNCHANGED <<log, hist>>

\* The body of PUT /courses/{course_id}: the fields that are set, and their values
CourseUpdate(fields, status, access_code) ==
    [fields |-> fields, status |-> status, access_code |-> access_code]

\* course_in.lessons is None
NoLessons == -1

\* A body that also carries a lessons list, of the given length; the new
\* lessons link to no quiz.
CourseUpdateLessons(fields, status, access_code, lessons) ==
    [fields |-> fields, status |-> status, access_code |-> access_code,
     lessons |-> lessons]

LessonsIn(course_in) ==
    IF "lessons" \in DOMAIN course_in THEN course_in.lessons ELSE NoLessons

\* update_course up to the loop: the lookup, the owner check and the setattr
\* loop; an HTTPException raised in the try block leaves as 500 'Update failed'
UpdateCourseBegin(p, actor, course_id, course_in) ==
    /\ req[p].pc = "idle"
    /\ hist.calls < MaxOps
    /\ UserRows(db, actor) # {}
    /\ hist' = [hist EXCEPT !.calls = @ + 1]
    /\ LET found == CourseById(db, course_id)
           refused == [op |-> "update_course", actor |-> actor, target |-> course_id,
                       code |-> 500, pre |-> db, checks |-> 0]
       IN  IF found = {} THEN last' = refused /\ UNCHANGED req
           ELSE \E course \in found, drawn \in generate_access_code(CourseCodeLength) :
                IF course.teacher # actor /\ UserRole(actor) # "SUPER_ADMIN"
                THEN last' = refused /\ UNCHANGED req
                ELSE LET status == IF "status" \in course_in.fields
                                   THEN course_in.status ELSE course.status
                         given == IF "access_code" \notin course_in.fields THEN course.access_code
                                  ELSE IF course_in.access_code # NoText
                                  THEN upper(strip(course_in.access_code)) ELSE NoText
                         loop == status # "DRAFT" /\ given = NoText
                     IN  /\ req' = [req EXCEPT ![p] =
                                      [op |-> "update_course", pc |-> IF loop THEN "check" ELSE "flush",
                                       actor |-> actor, checks |-> 0,
                                       loaded |-> {l.id : l \in {x \in db.lessons : x.course = course_id}},
                                       lessons |-> LessonsIn(course_in),
                                       course |-> [course EXCEPT !.status = status,
                                                      !.access_code = IF loop THEN drawn ELSE given]]]
                         /\ UNCHANGED last
    /\ UNCHANGED <<db, log>>

\* course.lessons.clear() and the appended lessons, as the flush writes
\* them: the lessons loaded with the course are deleted as orphans, with
\* their progress records, and the new ones are inserted
ReplaceLessons(d, r) ==
    IF r.lessons = NoLessons THEN d
    ELSE LET cleared == FlushDeleteLessons(d, r.loaded)
         IN  [cleared EXCEPT
                !.lessons = @ \cup {Lesson(d.next.lesson + i, r.course.id, NoId, NoCode)
                                      : i \in 0..(r.lessons - 1)},
                !.next.lesson = @ + r.lessons]

\* db.commit(): the UPDATE of the course row and the lesson changes
UpdateCourseFlush(p) ==
    /\ req[p].op = "update_course" /\ req[p].pc = "flush"
    /\ LET r == req[p] IN
       IF CourseById(db, r.course.id) = {} \/ CourseCodeConflict(db, r.course.id, r.course.access_code)
       THEN last' = CourseReply(r, 500) /\ UNCHANGED db
       ELSE /\ last' = CourseReply(r, 200)
            /\ db' = ReplaceLessons(
                        [db EXCEPT !.courses = {c \in @ : c.id # r.course.id} \cup {r.course}],
                        r)
    /\ req' = [req EXCEPT ![p] = Idle]
    /\ UNCHANGED <<log, hist>>

\* A search by code over courses of every status.
AnyStatus == {"DRAFT", "PUBLISHED", "PRIVATE"}

\* and_(Course.status == CourseStatus.PRIVATE, Course.access_code == ...)
CodeSearchStatuses == {"PRIVATE"}

\* The rows the query of list_courses selects (offset 0, limit above the count)
ListedCourses(d, search, category) ==
    IF search # NoText
    THEN {c \in d.courses :
            \/ /\ c.status = "PUBLISHED"
               /\ ilike(c.title, search) \/ ilike(c.category, search)
            \/ /\ c.status \in CodeSearchStatuses
               /\ c.access_code # NoText
               /\ c.access_code = upper(strip(search))}
    ELSE {c \in d.courses :
            /\ c.status = "PUBLISHED"
            /\ category # NoText => c.category = category}

list_courses(search, category) ==
    /\ hist.calls < MaxOps
    /\ hist' = [hist EXCEPT !.calls = @ + 1]
    /\ last' = [op |-> "list_courses", actor |-> NoId, target |-> NoId, code |-> 200,
                pre |-> db, search |-> search, category |-> category,
                view |-> ListedCourses(db, search, category)]
    /\ UNCHANGED <<db, req, log>>

----------------------------------------------------------------------------
(* The store the access-code runs start from, and their requests *)

CourseInputs ==
    {CourseCreate("PRIVATE", NoText, <<"M">>, NoText),
     CourseCreate("DRAFT", NoText, <<"a">>, NoText),
     CourseCreate("DRAFT", <<" ", "a">>, <<"a">>, NoText),
     CourseCreate("PUBLISHED", <<"b">>, <<"M">>, <<"m">>)}

UpdateInputs ==
    {CourseUpdate({"status", "access_code"}, "PUBLISHED", NoText),
     CourseUpdate({"status"}, "PRIVATE", NoText),
     CourseUpdate({"access_code"}, "DRAFT", <<"b", " ">>)}

SearchStrings ==
    {<<"a">>, <<" ", "b">>, <<"m">>, <<"_">>, <<"d", "r", "a", "f", "t", "_", "A">>}

\* search and category of the GET /courses calls
ListInputs ==
    {[search |-> x, category |-> NoText] : x \in SearchStrings}
        \cup {[search |-> NoText, category |-> y] : y \in {NoText, <<"m">>}}

\* actor and course_id of the PUT /courses/{course_id} calls; course 5 is missing
UpdateTargets ==
    {[actor |-> 2, course_id |-> 1], [actor |-> 2, course_id |-> 2],
     [actor |-> 3, course_id |-> 1], [actor |-> 2, course_id |-> 5]}

\* The body of the create_quiz calls: one question, two choices, one correct
OneQuestionQuiz == QuizCreate(<<QuestionCreate("multiple_choice", <<TRUE, FALSE>>)>>)

InitCodes ==
    /\ db = [EmptyDb EXCEPT
               !.users = {User(u) : u \in UserIds},
               !.quizzes = {Quiz(1, 2, <<"A">>)},
               !.questions = {QuestionRow(1, 1, "multiple_choice")},
               !.choices = {ChoiceRow(1, 1, TRUE), ChoiceRow(2, 1, FALSE)},
               !.courses = {CatalogCourse(1, 2, "DRAFT", DraftPlaceholder(<<"A">>), <<"a">>, NoText),
                            CatalogCourse(2, 2, "DRAFT", <<"A">>, <<"A">>, <<"m">>),
                            CatalogCourse(3, 3, "PRIVATE", <<"B">>, <<"b">>, NoText),
                            CatalogCourse(4, 3, "PUBLISHED", NoText, <<"M", "a">>, <<"m">>)},
               !.next.quiz = 2, !.next.question = 2, !.next.choice = 3,
               !.next.course = 5]
    /\ req = [p \in Procs |-> Idle]
    /\ log = <<>>
    /\ hist = NoHist
    /\ last = NoLast

NextCodes ==
    \/ \E p \in Procs, access_code \in generate_access_code(QuizCodeLength) :
          CreateQuizBegin(p, 2, access_code, OneQuestionQuiz)
    \/ \E p \in Procs : CreateQuizCheck(p)
    \/ \E p \in Procs : CreateQuizInsert(p)
    \/ \E course_in \in CourseInputs : CreateCourseBegin("p1", 2, course_in)
    \/ \E course_in \in {x \in CourseInputs : x.status = "PRIVATE"} :
          CreateCourseBegin("p1", 4, course_in)
    \/ CourseCodeCheck("p1")
    \/ CreateCourseFlush("p1")
    \/ \E t \in UpdateTargets, course_in \in UpdateInputs :
          UpdateCourseBegin("p1", t.actor, t.course_id, course_in)
    \/ UpdateCourseFlush("p1")
    \/ \E x \in ListInputs : list_courses(x.search, x.category)
    \/ InFlight = {} /\ delete_quiz(2, 1)

SpecCodes == InitCodes /\ [][NextCodes]_vars

----------------------------------------------------------------------------
(* Properties of the access-code handlers *)

CreateQuizReturned == last.op = "create_quiz"
CreatingQuiz == {p \in Procs : req[p].op = "create_quiz"}
AllocationFailed == "Failed to generate a unique access code"

AllocatingCourseCode == {p \in Procs : req[p].op \in {"create_course", "update_course"}}

\* C19: the course-code loop of create_course and update_course makes at
\* most max_attempts lookups and then ends with an error.
C19_CourseCodeBounded ==
    \A p \in AllocatingCourseCode : req[p].checks <= max_attempts

ListReturned == last.op = "list_courses"

StatusUpdates == {CourseUpdate({"status"}, st, NoText) : st \in {"DRAFT", "PUBLISHED"}}

InitDraft ==
    /\ \E st \in {"DRAFT", "PUBLISHED"} :
          db = [EmptyDb EXCEPT
                  !.users = {User(u) : u \in UserIds},
                  !.courses = {CatalogCourse(1, 2, st, <<"A">>, <<"M">>, NoText)},
                  !.next.course = 2]
    /\ req = [p \in Procs |-> Idle]
    /\ log = <<>>
    /\ hist = NoHist
    /\ last = NoLast

NextDraft ==
    \/ \E u \in EnrollUsers : EnrollBegin("p1", u, 1)
    \/ EnrollCheckExisting("p1")
    \/ EnrollInsert("p1")
    \/ \E course_in \in StatusUpdates : UpdateCourseBegin("p2", 2, 1, course_in)
    \/ UpdateCourseFlush("p2")

SpecDraft == InitDraft /\ [][NextDraft]_vars

\* C21: an enroll call on a DRAFT course by a user who is neither its teacher
\* nor a super-admin is answered 403 and adds no row, and every Enrollment
\* is added for its teacher or a super-admin when the course is DRAFT at
\* that moment.
C21_DraftEnrollForbidden ==
    [][/\ \A p \in Procs :
             (req[p].pc = "idle" /\ req'[p].op = "enroll") =>
                 \A course \in CourseById(db, req'[p].arg) :
                     ~DraftForbidden(course, req'[p].user)
       /\ (Len(log') > Len(log) /\ log'[Len(log')].code = 403) => db' = db
       /\ \A e \in db'.enrollments \ db.enrollments :
             \A course \in CourseById(db, e.course) : ~DraftForbidden(course, e.user)]_vars

(***************************************************************************)
(* Progress while the lesson set of the course changes: course 1 of        *)
(* teacher 2 with one lesson, which student 4 has completed.               *)
(***************************************************************************)

LessonListUpdates == {CourseUpdateLessons({}, "PUBLISHED", NoText, 1)}

InitLessons ==
    /\ db = [EmptyDb EXCEPT
               !.users = {User(u) : u \in UserIds},
               !.courses = {CatalogCourse(1, 2, "PUBLISHED", <<"A">>, <<"M">>, NoText)},
               !.lessons = {Lesson(1, 1, NoId, NoCode)},
               !.enrollments = {[Enrollment(1, 4, 1) EXCEPT
                                    !.status = "COMPLETED",
                                    !.progress_percent = Percent(1, 1)]},
               !.lesson_progress = {LessonProgress(1, 1, 1, "COMPLETED", 0)},
               !.next.course = 2, !.next.lesson = 2, !.next.enrollment = 2,
               !.next.lesson_progress = 2]
    /\ req = [p \in Procs |-> Idle]
    /\ log = <<>>
    /\ hist = NoHist
    /\ last = NoLast

NextLessons ==
    \/ \E p \in Procs, l \in {1, 2} : ProgBegin(p, 4, l, "COMPLETED", NoneTime)
    \/ \E p \in Procs : ProgGetEnrollment(p)
    \/ \E p \in Procs : ProgGetProgress(p)
    \/ \E p \in Procs : ProgCommit1(p)
    \/ \E p \in Procs : ProgCountTotal(p)
    \/ \E p \in Procs : ProgCountCompleted(p)
    \/ \E p \in Procs : ProgCommit2(p)
    \/ add_lesson(2, 1, NoId, NoCode)
    \/ \E lesson_id \in {1, 2} : delete_lesson(2, 1, lesson_id)
    \/ \E course_in \in LessonListUpdates : UpdateCourseBegin("p2", 2, 1, course_in)
    \/ UpdateCourseFlush("p2")
    \/ EnrollBegin("p1", 3, 1)
    \/ EnrollCheckExisting("p1")
    \/ EnrollInsert("p1")

SpecLessons == InitLessons /\ [][NextLessons]_vars

\* C22: every Enrollment has 0 <= progress_percent <= 100, and the
\* recomputation never works with more completed lessons than the course
\* has lessons.
C22_ProgressInRange ==
    /\ \A e \in db.enrollments : ck_enrollment_progress_range(e.progress_percent)
    /\ \A p \in Procs :
          (req[p].op = "progress" /\ req[p].pc = "commit2") =>
              ck_enrollment_progress_range(req[p].pct)

LessonSetChanged ==
    /\ last.op \in {"add_lesson", "delete_lesson", "update_course"}
    /\ last.code \in {200, 201, 204}
    /\ InFlight = {}

\* C27: after add_lesson, delete_lesson or update_course with a lessons list
\* has changed the lessons of a course, every enrollment's progress_percent
\* is its share of completed lessons among the lessons the course now has,
\* and its status is COMPLETED exactly when that share is 100.
C27_ProgressFollowsLessons ==
    LessonSetChanged =>
        \A e \in db.enrollments :
            /\ IsShare(e.progress_percent, Cardinality(CompletedRows(e)),
                       Cardinality(LessonsOf(e.course)))
            /\ e.status = "COMPLETED" <=> PctGe100(e.progress_percent)

(***************************************************************************)
(* Quiz authoring: create_quiz and update_quiz with the questions and      *)
(* choices of their bodies.                                                *)
(***************************************************************************)

\* for q in db_quiz.questions: await db.delete(q), choices by the cascade
DeleteQuestions(d, quiz_id) ==
    [d EXCEPT !.questions = @ \ QuestionsOf(d, {quiz_id}),
              !.choices = @ \ ChoicesOf(d, QuestionsOf(d, {quiz_id}))]

\* update_quiz: the owner only; the body is stored as sent.  A question_type
\* outside the enum is refused by the questions.question_type column at the
\* flush, which the handler does not catch.
update_quiz(actor, quiz_id, quiz_in) ==
    /\ hist.calls < MaxOps
    /\ UserRows(db, actor) # {}
    /\ hist' = [hist EXCEPT !.calls = @ + 1]
    /\ LET found == QuizById(db, quiz_id) IN
       IF found = {} THEN Reply("update_quiz", actor, quiz_id, 404, db)
       ELSE \E quiz \in found :
            IF quiz.teacher # actor
            THEN Reply("update_quiz", actor, quiz_id, 403, db)
            ELSE IF \E i \in 1..Len(quiz_in.questions) :
                        quiz_in.questions[i].question_type \notin QuestionType
            THEN Reply("update_quiz", actor, quiz_id, 500, db)
            ELSE Reply("update_quiz", actor, quiz_id, 200,
                       AddQuestions(DeleteQuestions(db, quiz_id), quiz_id, quiz_in.questions))
    /\ UNCHANGED <<req, log>>

\* Bodies sent by the teachers
QuizInputs ==
    {QuizCreate(<<>>),
     OneQuestionQuiz,
     QuizCreate(<<QuestionCreate("multiple_choice", <<TRUE, TRUE>>)>>),
     QuizCreate(<<QuestionCreate("multiple_select", <<TRUE, TRUE>>)>>),
     QuizCreate(<<QuestionCreate("true_false", <<FALSE, FALSE>>)>>),
     QuizCreate(<<QuestionCreate("multiple_choice", <<>>)>>),
     QuizCreate(<<QuestionCreate("essay", <<TRUE>>)>>),
     QuizCreate(<<QuestionCreate("multiple_select", <<TRUE>>),
                  QuestionCreate("true_false", <<TRUE, FALSE>>)>>)}

InitQuiz ==
    /\ db = [EmptyDb EXCEPT
               !.users = {User(u) : u \in UserIds},
               !.quizzes = {Quiz(1, 2, <<"A">>)},
               !.questions = {QuestionRow(1, 1, "multiple_choice")},
               !.choices = {ChoiceRow(1, 1, TRUE), ChoiceRow(2, 1, FALSE)},
               !.next.quiz = 2, !.next.question = 2, !.next.choice = 3]
    /\ req = [p \in Procs |-> Idle]
    /\ log = <<>>
    /\ hist = NoHist
    /\ last = NoLast

NextQuiz ==
    \/ \E access_code \in generate_access_code(QuizCodeLength), quiz_in \in QuizInputs :
          CreateQuizBegin("p1", 3, access_code, quiz_in)
    \/ CreateQuizCheck("p1")
    \/ CreateQuizInsert("p1")
    \/ \E actor \in {2, 3}, quiz_id \in 1..3, quiz_in \in QuizInputs :
          update_quiz(actor, quiz_id, quiz_in)

SpecQuiz == InitQuiz /\ [][NextQuiz]_vars

ChoicesOfQuestion(q) == {c \in db.choices : c.question = q.id}
CorrectChoices(q) == {c \in ChoicesOfQuestion(q) : c.is_correct}

\* C23: every persisted question has at least one choice; a multiple_choice
\* or true_false question has exactly one choice marked correct, and a
\* multiple_select question has one or more.
C23_QuestionChoicesValid ==
    \A q \in db.questions :
        /\ ChoicesOfQuestion(q) # {}
        /\ q.question_type \in {"multiple_choice", "true_false"}
               => Cardinality(CorrectChoices(q)) = 1
        /\ q.question_type = "multiple_select" => CorrectChoices(q) # {}

(***************************************************************************)
(* Ownership: the six handlers that change a course or a quiz, called by   *)
(* the owner, by another teacher and by a student.                         *)
(***************************************************************************)

MutationCallers == {2, 3, 4}   \* the owner, another teacher, a student

InitOwner ==
    /\ db = [EmptyDb EXCEPT
               !.users = {User(u) : u \in UserIds},
               !.quizzes = {Quiz(1, 2, <<"A">>)},
               !.questions = {QuestionRow(1, 1, "multiple_choice")},
               !.choices = {ChoiceRow(1, 1, TRUE), ChoiceRow(2, 1, FALSE)},
               !.courses = {CatalogCourse(1, 2, "PUBLISHED", <<"A">>, <<"M">>, NoText)},
               !.lessons = {Lesson(1, 1, NoId, NoCode)},
               !.next.quiz = 2, !.next.question = 2, !.next.choice = 3,
               !.next.course = 2, !.next.lesson = 2]
    /\ req = [p \in Procs |-> Idle]
    /\ log = <<>>
    /\ hist = NoHist
    /\ last = NoLast

NextOwner ==
    \/ \E actor \in MutationCallers, course_in \in StatusUpdates : UpdateCourseBegin("p1", actor, 1, course_in)
    \/ UpdateCourseFlush("p1")
    \/ \E actor \in MutationCallers : delete_course(actor, 1)
    \/ \E actor \in MutationCallers : add_lesson(actor, 1, NoId, NoCode)
    \/ \E actor \in MutationCallers, lesson_id \in 1..2 : delete_lesson(actor, 1, lesson_id)
    \/ \E actor \in MutationCallers, quiz_in \in {QuizCreate(<<>>), OneQuestionQuiz} :
          update_quiz(actor, 1, quiz_in)
    \/ \E actor \in MutationCallers : delete_quiz(actor, 1)

SpecOwner == InitOwner /\ [][NextOwner]_vars

CourseMutations == {"update_course", "delete_course", "add_lesson"}
QuizMutations == {"update_quiz", "delete_quiz"}

\* The teachers owning the course or quiz the last request named, as the
\* store held it when the request arrived
OwnersOfTarget ==
    IF last.op \in CourseMutations
    THEN {c.teacher : c \in CourseById(last.pre, last.target)}
    ELSE IF last.op = "delete_lesson"
    THEN {c.teacher : c \in {x \in last.pre.courses :
                                \E l \in last.pre.lessons : l.id = last.target /\ l.course = x.id}}
    ELSE IF last.op \in QuizMutations
    THEN {q.teacher : q \in QuizById(last.pre, last.target)}
    ELSE {}

Administrator(u) == UserRole(u) \in {"SUPER_ADMIN", "ADMIN"}

NonOwnerMutation ==
    /\ last.op \in CourseMutations \cup QuizMutations \cup {"delete_lesson"}
    /\ OwnersOfTarget # {}
    /\ last.actor \notin OwnersOfTarget
    /\ ~Administrator(last.actor)

\* C24: a mutation of a course or quiz asked for by a user who is neither
\* its owning teacher nor an administrator is answered 403 Forbidden and
\* leaves every row of the store as it was.
C24_NonOwnerForbidden ==
    NonOwnerMutation => last.code = 403 /\ db = last.pre

(***************************************************************************)
(* One progress row per enrollment and lesson                              *)
(***************************************************************************)

\* A call on the create branch whose (enrollment, lesson) pair has been
\* given a row by another call since it looked
CreateOvertaken(p) ==
    /\ req[p].op = "progress" /\ req[p].pc = "commit1"
    /\ req[p].isNew
    /\ ProgressRows(db, req[p].enr.id, req[p].arg) # {}

\* C25: at most one LessonProgress row per (enrollment, lesson) in every
\* reachable state, also when two calls for a pair without a row run at
\* the same time and both create one.
C25_OneProgressRow ==
    \A x, y \in db.lesson_progress :
        (x.enrollment = y.enrollment /\ x.lesson = y.lesson) => x.id = y.id

\* Both calls took the create branch and the first INSERT is committed.
C25_Witness == \E p \in Procs : CreateOvertaken(p)

(***************************************************************************)
(* The order of the stages of admin_delete_user                            *)
(***************************************************************************)

\* The request whose statements have all run and whose commit is next
AtCommit(p) == req[p].op = "admin_delete_user" /\ req[p].pc = "commit"

\* Rows of the view d that still name the user u
StillNamingUser(d, u) == UserBackrefError(d, u) \/ UserReferenceError(d, u)

IsDraftPlaceholder(code) ==
    /\ Len(code) >= 6
    /\ SubSeq(code, 1, 6) = <<"D", "R", "A", "F", "T", "_">>

\* C28: no PUBLISHED or PRIVATE course carries a draft placeholder access
\* code; a course created as DRAFT without a code and later published or
\* made private by update_course has a real join code.
C28_NoPlaceholderOnceLive ==
    \A c \in db.courses :
        c.status \in {"PUBLISHED", "PRIVATE"} => ~IsDraftPlaceholder(c.access_code)

(***************************************************************************)
(* What admin_delete_user leaves behind                                    *)
(***************************************************************************)

UserDeleted == last.op = "admin_delete_user" /\ last.code = 204

\* The access codes of the quizzes the user owned in store d
QuizCodesOwnedBy(d, u) == {q.access_code : q \in {x \in d.quizzes : x.teacher = u}}

\* C29: once admin_delete_user has removed a teacher's quizzes, no lesson of
\* any course carries a quiz_code equal to the access code of one of them,
\* whether the lesson was linked by linked_quiz_id or by quiz_code alone.
C29_NoStaleQuizCode ==
    UserDeleted =>
        \A l \in db.lessons : l.quiz_code \notin QuizCodesOwnedBy(last.pre, last.target)

\* The rows of store d that belong to user u: the rows naming u, a quiz or
\* a course of u, and the rows under those (questions and choices of the
\* quizzes; lessons, enrollments and their progress records, messages and
\* feedback of the courses; the progress records of u's enrollments)
BelongingTo(d, u) ==
    LET quiz_ids == Ids({q \in d.quizzes : q.teacher = u})
        course_ids == Ids({c \in d.courses : c.teacher = u})
        enrollments == {e \in d.enrollments : e.user = u \/ e.course \in course_ids}
        lessons == {l \in d.lessons : l.course \in course_ids}
    IN  [users |-> {x \in d.users : x.id = u},
         quizzes |-> {q \in d.quizzes : q.teacher = u},
         questions |-> QuestionsOf(d, quiz_ids),
         choices |-> ChoicesOf(d, QuestionsOf(d, quiz_ids)),
         attempts |-> {a \in d.attempts : a.user = u \/ a.quiz \in quiz_ids},
         participations |-> {a \in d.participations : a.user = u \/ a.quiz \in quiz_ids},
         courses |-> {c \in d.courses : c.teacher = u},
         lessons |-> lessons,
         enrollments |-> enrollments,
         lesson_progress |-> {r \in d.lesson_progress :
                                r.enrollment \in Ids(enrollments) \/ r.lesson \in Ids(lessons)},
         messages |-> {m \in d.messages : m.user = u \/ m.course \in course_ids},
         feedback |-> {f \in d.feedback : f.user = u \/ f.course \in course_ids},
         chat_sessions |-> {c \in d.chat_sessions : c.user = u}]

Tables ==
    {"users", "quizzes", "questions", "choices", "attempts", "participations",
     "courses", "enrollments", "lesson_progress", "messages", "feedback",
     "chat_sessions"}

\* A lesson of another teacher as the deletion of u may leave it
LessonAfter(d, u, l) ==
    IF l.linked_quiz_id \in Ids({q \in d.quizzes : q.teacher = u})
    THEN [l EXCEPT !.linked_quiz_id = NoId, !.quiz_code = NoCode]
    ELSE l

\* C30: admin_delete_user leaves every row that belongs neither to the
\* target nor to a quiz or course of the target as it was, in every table;
\* a lesson of another teacher's course changes only by having
\* linked_quiz_id and quiz_code nulled, and only when it was linked to one
\* of the target's quizzes.
C30_OtherRowsKept ==
    last.op = "admin_delete_user" =>
        LET own == BelongingTo(last.pre, last.target) IN
        /\ \A t \in Tables : last.pre[t] \ own[t] \subseteq db[t]
        /\ \A l \in last.pre.lessons \ own.lessons :
              \E k \in db.lessons : k \in {l, LessonAfter(last.pre, last.target, l)} /\ k.id = l.id
        /\ \A k \in db.lessons :
              \E l \in last.pre.lessons : k \in {l, LessonAfter(last.pre, last.target, l)}

\* A teacher with a quiz is deleted while another teacher's lesson links to
\* that quiz and other users' rows exist.
C30_Witness ==
    /\ UserDeleted
    /\ \E l \in last.pre.lessons \ BelongingTo(last.pre, last.target).lessons :
          /\ LessonAfter(last.pre, last.target, l) # l
          /\ LessonAfter(last.pre, last.target, l) \in db.lessons
    /\ db.enrollments # {} /\ db.quizzes # {} /\ db.feedback # {}

====
